---- MODULE Spec2Model ----
(***************************************************************************)
(* A model of the pyscheduler coordination engine: the persisted state and *)
(* the Modifier's transitions (modifier.py), the event cache (events.py),  *)
(* the result resolver (dependencies.py), the per-task driver and the      *)
(* dispatcher (runner.py), and the Adder, Canceller and Cleaner.           *)
(*                                                                         *)
(* UUIDs are modelled as naturals (uuid4 never repeats: ids are handed out *)
(* by a counter), str(UUID) as the 1-tuple <<i>>, datetimes as naturals    *)
(* read from a clock that never goes backwards, datetime.isoformat() as    *)
(* the 1-tuple <<t>>.  The opaque `parameters` of a Specification are not  *)
(* modelled.                                                               *)
(***************************************************************************)
EXTENDS Integers, Sequences, FiniteSets, TLC

\* ---------------------------------------------------------------- bounds
MaxTasks == 2
MaxTime == 1
MaxStored == 3
\* The events the factory creates for one topic.
MaxEvents == 2

\* ------------------------------------------------------------- constants
None == "None"
\* None where a datetime is expected, and in its serialized form.
NoTime == -1
NoTimeStr == <<>>
PENDING == "pending"
RUNNING == "running"
CANCELLED == "cancelled"
FAILED == "failed"
COMPLETED == "completed"
Status == {PENDING, RUNNING, CANCELLED, FAILED, COMPLETED}
Finished == {CANCELLED, FAILED, COMPLETED}

\* Ids that uuid4 hands out, and an id that no task ever gets.
Ids == 1..MaxTasks
UnknownId == 0
\* Parameter names a request may use in its `dependencies` map.
Params == {"a", "b"}
\* Values an operation may return, and the error it may raise.
Results == {"r1", "r2"}
OpError == "boom"
\* Types the factories know.
OperationTypes == {"echo"}
ConditionTypes == {"always"}

\* --------------------------------------------------------------- helpers
EmptyMap == [x \in {} |-> None]
Put(f, k, v) == [x \in (DOMAIN f) \cup {k} |-> IF x = k THEN v ELSE f[x]]
Pop(f, k) == [x \in (DOMAIN f) \ {k} |-> f[x]]
Get(f, k) == IF k \in DOMAIN f THEN f[k] ELSE None
Values(f) == {f[x] : x \in DOMAIN f}
\* All the orders in which the members of a set can be listed.
Orders(S) == {q \in [1..Cardinality(S) -> S] : \A i, j \in 1..Cardinality(S) : i # j => q[i] # q[j]}
SeqToSet(q) == {q[i] : i \in 1..Len(q)}

\* ------------------------------------------- conversions (models/data/runtime.py)
UuidStr(i) == <<i>>
StrUuid(s) == s[1]
IsoFormat(t) == <<t>>
FromIsoFormat(s) == s[1]

TaskSerialize(task) ==
    [operation |-> task.operation,
     condition |-> task.condition,
     dependencies |-> [p \in DOMAIN task.dependencies |-> UuidStr(task.dependencies[p])]]

\* Mutant: the ids of the dependencies are not read back.
TaskDeserialize_drops_dependencies(data) ==
    [operation |-> data.operation,
     condition |-> data.condition,
     dependencies |-> EmptyMap]

TaskDeserialize(data) ==
    [operation |-> data.operation,
     condition |-> data.condition,
     dependencies |-> [p \in DOMAIN data.dependencies |-> StrUuid(data.dependencies[p])]]

PendingTaskSerialize(rec) ==
    [task |-> TaskSerialize(rec.task), scheduled |-> IsoFormat(rec.scheduled)]

PendingTaskDeserialize(data) ==
    [task |-> TaskDeserialize(data.task), scheduled |-> FromIsoFormat(data.scheduled)]

RunningTaskSerialize(rec) ==
    [task |-> TaskSerialize(rec.task), scheduled |-> IsoFormat(rec.scheduled),
     started |-> IsoFormat(rec.started)]

RunningTaskDeserialize(data) ==
    [task |-> TaskDeserialize(data.task), scheduled |-> FromIsoFormat(data.scheduled),
     started |-> FromIsoFormat(data.started)]

CancelledTaskSerialize(rec) ==
    [task |-> TaskSerialize(rec.task), scheduled |-> IsoFormat(rec.scheduled),
     started |-> IF rec.started # NoTime THEN IsoFormat(rec.started) ELSE NoTimeStr,
     cancelled |-> IsoFormat(rec.cancelled)]

CancelledTaskDeserialize(data) ==
    [task |-> TaskDeserialize(data.task), scheduled |-> FromIsoFormat(data.scheduled),
     started |-> IF data.started # NoTimeStr THEN FromIsoFormat(data.started) ELSE NoTime,
     cancelled |-> FromIsoFormat(data.cancelled)]

FailedTaskSerialize(rec) ==
    [task |-> TaskSerialize(rec.task), scheduled |-> IsoFormat(rec.scheduled),
     started |-> IsoFormat(rec.started), failed |-> IsoFormat(rec.failed),
     error |-> rec.error]

FailedTaskDeserialize(data) ==
    [task |-> TaskDeserialize(data.task), scheduled |-> FromIsoFormat(data.scheduled),
     started |-> FromIsoFormat(data.started), failed |-> FromIsoFormat(data.failed),
     error |-> data.error]

CompletedTaskSerialize(rec) ==
    [task |-> TaskSerialize(rec.task), scheduled |-> IsoFormat(rec.scheduled),
     started |-> IsoFormat(rec.started), completed |-> IsoFormat(rec.completed),
     result |-> rec.result]

CompletedTaskDeserialize(data) ==
    [task |-> TaskDeserialize(data.task), scheduled |-> FromIsoFormat(data.scheduled),
     started |-> FromIsoFormat(data.started), completed |-> FromIsoFormat(data.completed),
     result |-> data.result]

\* {str(key): value.serialize() ...} for each of the five mappings.
TasksSerialize(tasks) ==
    [pending |-> [k \in {UuidStr(i) : i \in DOMAIN tasks.pending} |->
                     PendingTaskSerialize(tasks.pending[StrUuid(k)])],
     running |-> [k \in {UuidStr(i) : i \in DOMAIN tasks.running} |->
                     RunningTaskSerialize(tasks.running[StrUuid(k)])],
     cancelled |-> [k \in {UuidStr(i) : i \in DOMAIN tasks.cancelled} |->
                     CancelledTaskSerialize(tasks.cancelled[StrUuid(k)])],
     failed |-> [k \in {UuidStr(i) : i \in DOMAIN tasks.failed} |->
                     FailedTaskSerialize(tasks.failed[StrUuid(k)])],
     completed |-> [k \in {UuidStr(i) : i \in DOMAIN tasks.completed} |->
                     CompletedTaskSerialize(tasks.completed[StrUuid(k)])]]

TasksDeserialize(data) ==
    [pending |-> [i \in {StrUuid(k) : k \in DOMAIN data.pending} |->
                     PendingTaskDeserialize(data.pending[UuidStr(i)])],
     running |-> [i \in {StrUuid(k) : k \in DOMAIN data.running} |->
                     RunningTaskDeserialize(data.running[UuidStr(i)])],
     cancelled |-> [i \in {StrUuid(k) : k \in DOMAIN data.cancelled} |->
                     CancelledTaskDeserialize(data.cancelled[UuidStr(i)])],
     failed |-> [i \in {StrUuid(k) : k \in DOMAIN data.failed} |->
                     FailedTaskDeserialize(data.failed[UuidStr(i)])],
     completed |-> [i \in {StrUuid(k) : k \in DOMAIN data.completed} |->
                     CompletedTaskDeserialize(data.completed[UuidStr(i)])]]

\* A set of UUIDs becomes a list of strings; the order is the iteration order
\* of a Python set, which the code does not fix: every order is possible.
SetSerializations(m) ==
    {f \in [{UuidStr(i) : i \in DOMAIN m} ->
                UNION {Orders({UuidStr(v) : v \in m[i]}) : i \in DOMAIN m}] :
        \A k \in DOMAIN f : f[k] \in Orders({UuidStr(v) : v \in m[StrUuid(k)]})}

RelationshipsSerializations(rel) ==
    {[dependents |-> d1, dependencies |-> d2] :
        d1 \in SetSerializations(rel.dependents),
        d2 \in SetSerializations(rel.dependencies)}

RelationshipsDeserialize(data) ==
    [dependents |-> [i \in {StrUuid(k) : k \in DOMAIN data.dependents} |->
                        {StrUuid(v) : v \in SeqToSet(data.dependents[UuidStr(i)])}],
     dependencies |-> [i \in {StrUuid(k) : k \in DOMAIN data.dependencies} |->
                        {StrUuid(v) : v \in SeqToSet(data.dependencies[UuidStr(i)])}]]

\* State.serialize(): every value the call can produce.
StateSerializations(state) ==
    {[tasks |-> TasksSerialize(state.tasks),
      statuses |-> [k \in {UuidStr(i) : i \in DOMAIN state.statuses} |->
                       state.statuses[StrUuid(k)]],
      relationships |-> rel] :
        rel \in RelationshipsSerializations(state.relationships)}

StateDeserialize(data) ==
    [tasks |-> TasksDeserialize(data.tasks),
     statuses |-> [i \in {StrUuid(k) : k \in DOMAIN data.statuses} |->
                      data.statuses[UuidStr(i)]],
     relationships |-> RelationshipsDeserialize(data.relationships)]

EmptyState ==
    [tasks |-> [pending |-> EmptyMap, running |-> EmptyMap, cancelled |-> EmptyMap,
                failed |-> EmptyMap, completed |-> EmptyMap],
     statuses |-> EmptyMap,
     relationships |-> [dependents |-> EmptyMap, dependencies |-> EmptyMap]]

\* ------------------------------------------------------ errors (errors.py)
NoError == [kind |-> "none"]
InvalidOperationError(type) == [kind |-> "InvalidOperation", type |-> type]
InvalidConditionError(type) == [kind |-> "InvalidCondition", type |-> type]
DependencyNotFoundError(id) == [kind |-> "DependencyNotFound", id |-> id]
TaskNotFoundError(id) == [kind |-> "TaskNotFound", id |-> id]
TaskStatusError(id, status) == [kind |-> "TaskStatusError", id |-> id, status |-> status]
UnsuccessfulDependencyError(id, status) ==
    [kind |-> "UnsuccessfulDependency", id |-> id, status |-> status]
\* str(UnsuccessfulDependencyError): "Dependency <id> finished with status <status>."
DependencyMessage(id, status) == <<"Dependency", id, "finished with status", status>>
OperationFailedMessage(type, error) == <<"Operation", type, "failed:", error>>
ConditionFailedMessage(type, error) == <<"Condition", type, "failed:", error>>
OperationNotSupportedMessage(type) == <<"Operation", type, "is not supported.">>
ConditionNotSupportedMessage(type) == <<"Condition", type, "is not supported.">>

\* --------------------------------------------------- Modifier (modifier.py)
\* Each operator is the body of the method between _get_state and _save_state:
\* it maps the deserialized state to the error raised (if any) and the state
\* to save.  When it raises, nothing is saved.
Raise(state, error) == [err |-> error, state |-> state, task |-> None]
Return(state, task) == [err |-> NoError, state |-> state, task |-> task]

\* Mutant: the missing dependency is reported instead of the new task.
add_pending_task_reports_dependency(state, task_id, task, scheduled) ==
    IF \E p \in DOMAIN task.dependencies : task.dependencies[p] \notin DOMAIN state.statuses
    THEN Raise(state, DependencyNotFoundError(
             CHOOSE d \in Values(task.dependencies) : d \notin DOMAIN state.statuses))
    ELSE
        LET pending_task == [task |-> task, scheduled |-> scheduled]
            dependencies == Values(task.dependencies)
            rel == state.relationships
            deps1 == IF dependencies # {}
                     THEN Put(rel.dependencies, task_id, dependencies)
                     ELSE rel.dependencies
            dents1 == [d \in (DOMAIN rel.dependents) \cup dependencies |->
                          IF d \in dependencies
                          THEN (IF d \in DOMAIN rel.dependents THEN rel.dependents[d] ELSE {})
                                   \cup {task_id}
                          ELSE rel.dependents[d]]
        IN Return([tasks |-> [state.tasks EXCEPT !.pending = Put(@, task_id, pending_task)],
                   statuses |-> Put(state.statuses, task_id, PENDING),
                   relationships |-> [dependents |-> dents1, dependencies |-> deps1]],
                  pending_task)

\* Mutant: the new task is entered in `statuses` before its dependencies are
\* looked up there, so a task may name itself.
add_pending_task_checks_after_insert(state, task_id, task, scheduled) ==
    IF \E p \in DOMAIN task.dependencies :
           task.dependencies[p] \notin (DOMAIN state.statuses) \cup {task_id}
    THEN Raise(state, DependencyNotFoundError(task_id))
    ELSE
        LET pending_task == [task |-> task, scheduled |-> scheduled]
            dependencies == Values(task.dependencies)
            rel == state.relationships
            deps1 == IF dependencies # {}
                     THEN Put(rel.dependencies, task_id, dependencies)
                     ELSE rel.dependencies
            dents1 == [d \in (DOMAIN rel.dependents) \cup dependencies |->
                          IF d \in dependencies
                          THEN (IF d \in DOMAIN rel.dependents THEN rel.dependents[d] ELSE {})
                                   \cup {task_id}
                          ELSE rel.dependents[d]]
        IN Return([tasks |-> [state.tasks EXCEPT !.pending = Put(@, task_id, pending_task)],
                   statuses |-> Put(state.statuses, task_id, PENDING),
                   relationships |-> [dependents |-> dents1, dependencies |-> deps1]],
                  pending_task)

add_pending_task(state, task_id, task, scheduled) ==
    IF \E p \in DOMAIN task.dependencies : task.dependencies[p] \notin DOMAIN state.statuses
    THEN Raise(state, DependencyNotFoundError(task_id))
    ELSE
        LET pending_task == [task |-> task, scheduled |-> scheduled]
            dependencies == Values(task.dependencies)
            rel == state.relationships
            deps1 == IF dependencies # {}
                     THEN Put(rel.dependencies, task_id, dependencies)
                     ELSE rel.dependencies
            dents1 == [d \in (DOMAIN rel.dependents) \cup dependencies |->
                          IF d \in dependencies
                          THEN (IF d \in DOMAIN rel.dependents THEN rel.dependents[d] ELSE {})
                                   \cup {task_id}
                          ELSE rel.dependents[d]]
        IN Return([tasks |-> [state.tasks EXCEPT !.pending = Put(@, task_id, pending_task)],
                   statuses |-> Put(state.statuses, task_id, PENDING),
                   relationships |-> [dependents |-> dents1, dependencies |-> deps1]],
                  pending_task)

\* Mutant: the record is not taken out of `pending`.
move_task_to_running_keeps_pending(state, task_id, started) ==
    LET status == Get(state.statuses, task_id)
        task == state.tasks.pending[task_id]
    IN  IF status = None THEN Raise(state, TaskNotFoundError(task_id))
        ELSE IF status # PENDING THEN Raise(state, TaskStatusError(task_id, status))
        ELSE LET running == [task |-> task.task, scheduled |-> task.scheduled,
                             started |-> started]
             IN Return([state EXCEPT !.tasks.running = Put(@, task_id, running),
                                     !.statuses = Put(@, task_id, RUNNING)],
                       running)

move_task_to_running(state, task_id, started) ==
    LET status == Get(state.statuses, task_id)
        task == state.tasks.pending[task_id]
    IN  IF status = None THEN Raise(state, TaskNotFoundError(task_id))
        ELSE IF status # PENDING THEN Raise(state, TaskStatusError(task_id, status))
        ELSE IF task_id \notin DOMAIN state.tasks.pending
        THEN Raise(state, TaskNotFoundError(task_id))
        ELSE LET running == [task |-> task.task, scheduled |-> task.scheduled,
                             started |-> started]
             IN Return([state EXCEPT !.tasks.pending = Pop(@, task_id),
                                     !.tasks.running = Put(@, task_id, running),
                                     !.statuses = Put(@, task_id, RUNNING)],
                       running)

\* Mutant: `started` of a running record is not carried forward.
move_task_to_cancelled_drops_started(state, task_id, cancelled) ==
    LET status == Get(state.statuses, task_id)
        source == IF status = PENDING THEN state.tasks.pending ELSE state.tasks.running
        task == source[task_id]
    IN  IF status = None THEN Raise(state, TaskNotFoundError(task_id))
        ELSE IF status \notin {PENDING, RUNNING}
        THEN Raise(state, TaskStatusError(task_id, status))
        ELSE IF task_id \notin DOMAIN source THEN Raise(state, TaskNotFoundError(task_id))
        ELSE LET rec == [task |-> task.task, scheduled |-> task.scheduled,
                         started |-> NoTime, cancelled |-> cancelled]
                 popped == IF status = PENDING
                           THEN [state EXCEPT !.tasks.pending = Pop(@, task_id)]
                           ELSE [state EXCEPT !.tasks.running = Pop(@, task_id)]
             IN Return([popped EXCEPT !.tasks.cancelled = Put(@, task_id, rec),
                                      !.statuses = Put(@, task_id, CANCELLED)],
                       rec)

\* Mutant: cancelling a cancelled task stamps it again instead of refusing.
move_task_to_cancelled_again(state, task_id, cancelled) ==
    LET status == Get(state.statuses, task_id)
        source == state.tasks[status]
        task == source[task_id]
        started == IF status = PENDING THEN NoTime ELSE task.started
    IN  IF status = None THEN Raise(state, TaskNotFoundError(task_id))
        ELSE IF status \notin {PENDING, RUNNING, CANCELLED}
        THEN Raise(state, TaskStatusError(task_id, status))
        ELSE IF task_id \notin DOMAIN source THEN Raise(state, TaskNotFoundError(task_id))
        ELSE LET rec == [task |-> task.task, scheduled |-> task.scheduled,
                         started |-> started, cancelled |-> cancelled]
                 popped == [state EXCEPT !.tasks[status] = Pop(@, task_id)]
             IN Return([popped EXCEPT !.tasks.cancelled = Put(@, task_id, rec),
                                      !.statuses = Put(@, task_id, CANCELLED)],
                       rec)

move_task_to_cancelled(state, task_id, cancelled) ==
    LET status == Get(state.statuses, task_id)
        source == IF status = PENDING THEN state.tasks.pending ELSE state.tasks.running
        task == source[task_id]
        started == IF status = PENDING THEN NoTime ELSE task.started
    IN  IF status = None THEN Raise(state, TaskNotFoundError(task_id))
        ELSE IF status \notin {PENDING, RUNNING}
        THEN Raise(state, TaskStatusError(task_id, status))
        ELSE IF task_id \notin DOMAIN source THEN Raise(state, TaskNotFoundError(task_id))
        ELSE LET rec == [task |-> task.task, scheduled |-> task.scheduled,
                         started |-> started, cancelled |-> cancelled]
                 popped == IF status = PENDING
                           THEN [state EXCEPT !.tasks.pending = Pop(@, task_id)]
                           ELSE [state EXCEPT !.tasks.running = Pop(@, task_id)]
             IN Return([popped EXCEPT !.tasks.cancelled = Put(@, task_id, rec),
                                      !.statuses = Put(@, task_id, CANCELLED)],
                       rec)

\* Mutant: a pending task may be moved to failed as well.
move_task_to_failed_from_pending(state, task_id, failed, error) ==
    LET status == Get(state.statuses, task_id)
        source == IF status = PENDING THEN state.tasks.pending ELSE state.tasks.running
        task == source[task_id]
    IN  IF status = None THEN Raise(state, TaskNotFoundError(task_id))
        ELSE IF status \notin {PENDING, RUNNING}
        THEN Raise(state, TaskStatusError(task_id, status))
        ELSE IF task_id \notin DOMAIN source THEN Raise(state, TaskNotFoundError(task_id))
        ELSE LET rec == [task |-> task.task, scheduled |-> task.scheduled,
                         started |-> IF status = PENDING THEN failed ELSE task.started,
                         failed |-> failed, error |-> error]
                 popped == IF status = PENDING
                           THEN [state EXCEPT !.tasks.pending = Pop(@, task_id)]
                           ELSE [state EXCEPT !.tasks.running = Pop(@, task_id)]
             IN Return([popped EXCEPT !.tasks.failed = Put(@, task_id, rec),
                                      !.statuses = Put(@, task_id, FAILED)],
                       rec)

move_task_to_failed(state, task_id, failed, error) ==
    LET status == Get(state.statuses, task_id)
        task == state.tasks.running[task_id]
    IN  IF status = None THEN Raise(state, TaskNotFoundError(task_id))
        ELSE IF status # RUNNING THEN Raise(state, TaskStatusError(task_id, status))
        ELSE IF task_id \notin DOMAIN state.tasks.running
        THEN Raise(state, TaskNotFoundError(task_id))
        ELSE LET rec == [task |-> task.task, scheduled |-> task.scheduled,
                         started |-> task.started, failed |-> failed, error |-> error]
             IN Return([state EXCEPT !.tasks.running = Pop(@, task_id),
                                     !.tasks.failed = Put(@, task_id, rec),
                                     !.statuses = Put(@, task_id, FAILED)],
                       rec)

\* Mutant: the two timestamps of the completed record are swapped.
move_task_to_completed_swaps_timestamps(state, task_id, completed, result) ==
    LET status == Get(state.statuses, task_id)
        task == state.tasks.running[task_id]
    IN  IF status = None THEN Raise(state, TaskNotFoundError(task_id))
        ELSE IF status # RUNNING THEN Raise(state, TaskStatusError(task_id, status))
        ELSE IF task_id \notin DOMAIN state.tasks.running
        THEN Raise(state, TaskNotFoundError(task_id))
        ELSE LET rec == [task |-> task.task, scheduled |-> task.scheduled,
                         started |-> completed, completed |-> task.started,
                         result |-> result]
             IN Return([state EXCEPT !.tasks.running = Pop(@, task_id),
                                     !.tasks.completed = Put(@, task_id, rec),
                                     !.statuses = Put(@, task_id, COMPLETED)],
                       rec)

\* Mutant: a cancelled task takes the result that arrives late.
move_task_to_completed_over_cancelled(state, task_id, completed, result) ==
    LET status == Get(state.statuses, task_id)
        source == IF status = CANCELLED THEN state.tasks.cancelled ELSE state.tasks.running
        task == source[task_id]
    IN  IF status = None THEN Raise(state, TaskNotFoundError(task_id))
        ELSE IF status \notin {RUNNING, CANCELLED}
        THEN Raise(state, TaskStatusError(task_id, status))
        ELSE IF task_id \notin DOMAIN source THEN Raise(state, TaskNotFoundError(task_id))
        ELSE LET rec == [task |-> task.task, scheduled |-> task.scheduled,
                         started |-> IF task.started = NoTime THEN completed
                                     ELSE task.started,
                         completed |-> completed, result |-> result]
                 popped == IF status = CANCELLED
                           THEN [state EXCEPT !.tasks.cancelled = Pop(@, task_id)]
                           ELSE [state EXCEPT !.tasks.running = Pop(@, task_id)]
             IN Return([popped EXCEPT !.tasks.completed = Put(@, task_id, rec),
                                      !.statuses = Put(@, task_id, COMPLETED)],
                       rec)

move_task_to_completed(state, task_id, completed, result) ==
    LET status == Get(state.statuses, task_id)
        task == state.tasks.running[task_id]
    IN  IF status = None THEN Raise(state, TaskNotFoundError(task_id))
        ELSE IF status # RUNNING THEN Raise(state, TaskStatusError(task_id, status))
        ELSE IF task_id \notin DOMAIN state.tasks.running
        THEN Raise(state, TaskNotFoundError(task_id))
        ELSE LET rec == [task |-> task.task, scheduled |-> task.scheduled,
                         started |-> task.started, completed |-> completed,
                         result |-> result]
             IN Return([state EXCEPT !.tasks.running = Pop(@, task_id),
                                     !.tasks.completed = Put(@, task_id, rec),
                                     !.statuses = Put(@, task_id, COMPLETED)],
                       rec)

\* ------------------------------------------------------------------ state
VARIABLES
    store,      \* the serialized State held by the Store
    lock,       \* the exclusive Lock: "free", or who holds it across steps
    queue,      \* the Queue of task ids
    nextId,     \* the next id uuid4 hands out
    now,        \* the clock behind utcnow / awareutcnow
    cache,      \* EventCache._cache: topic -> the event it holds (0: no entry)
    created,    \* per topic, the number of events the EventFactory created
    notified,   \* the events on which notify was called
    run,        \* per id, the driver: its _run_task pipeline and its handler
    canceller,  \* the Canceller.cancel call in progress
    cleaner,    \* the Cleaner.clean call in progress
    reader,     \* the Reader.get call in progress
    dispatcher, \* the Runner's _process_queue task: "running" or "stopped"
    modifier,   \* per caller, the Modifier call it is suspended in
    events,     \* the EventCache's mutex and the calls of the cache in progress
    calls,      \* how often notify, condition.wait and operation.run were called
    orphans     \* the pipelines whose handler ended before them at the exit

vars == <<store, lock, queue, nextId, now, cache, created, notified, run,
          canceller, cleaner, reader, dispatcher, modifier, events, calls, orphans>>

Topics == {"finished", "cancelled"} \X Ids
FinishedTopic(i) == <<"finished", i>>
CancelledTopic(i) == <<"cancelled", i>>

\* The deserialized state a _get_state call returns.
State == StateDeserialize(store)

\* What a pipeline holds before _get_task gave it a task, and before an error
\* message was built.
NoTask == [operation |-> [type |-> None], condition |-> [type |-> None],
           dependencies |-> EmptyMap]
NoMessage == <<>>
IdleRun ==
    [pc |-> "none", task |-> NoTask, finished |-> 0, todo |-> {}, param |-> None,
     deps |-> EmptyMap, wpc |-> "none", wev |-> 0, cancel |-> "no", error |-> NoMessage]
\* The name under which the driver of an id holds the lock.
Holder(i) == <<"driver1", "driver2", "driver3">>[i]
\* The name under which the watcher task of a pipeline holds the mutex of the
\* EventCache (the pipeline and the Canceller hold it under their own names).
Watcher(i) == <<"watcher1", "watcher2", "watcher3">>[i]
\* Who calls the Modifier with a transition or an addition: the Adder, the
\* Canceller and the driver of each id.
Callers == {"adder", "canceller"} \cup {Holder(i) : i \in Ids}
\* A Modifier call between its _get_state and its _save_state: the id it is
\* about, the state it read and the state it is about to save.
IdleCall == [pc |-> "idle", id |-> UnknownId, read |-> EmptyState, state |-> EmptyState]
\* The tasks that call the EventCache at the same time, and a call that has
\* not begun: the topic asked for and the event handed back.
CacheCallers == {"first", "second"}
IdleGet == [pc |-> "idle", topic |-> <<"finished", 1>>, event |-> 0, stale |-> FALSE]
\* No call of a notify, of condition.wait or of operation.run was made yet.
NoCalls ==
    [notify |-> [t \in Topics |-> 0], wait |-> [i \in Ids |-> 0],
     run |-> [i \in Ids |-> 0]]
\* One more call of notify on an event of the topic.
Notify(topic) == [calls EXCEPT !.notify[topic] = @ + 1]
\* The calls after a step of the pipeline of an id: a pipeline that has just
\* reached condition.wait or operation.run has called it.
Called(i) ==
    [calls EXCEPT !.wait[i] = IF run[i].pc' = "condition" /\ run[i].pc # "condition"
                              THEN @ + 1 ELSE @,
                  !.run[i] = IF run[i].pc' = "operation" /\ run[i].pc # "operation"
                             THEN @ + 1 ELSE @]
\* The `async with self._lock` of an EventCache method is left, by its return
\* or by an exception: the mutex is free again if one of the tasks held it.
Released(K) == IF events.mutex \in K THEN [events EXCEPT !.mutex = "free"] ELSE events
IdleCanceller == [pc |-> "idle", id |-> UnknownId]
IdleCleaner ==
    [pc |-> "idle", state |-> EmptyState, pool |-> {}, removed |-> {}, size |-> 0,
     scan |-> {}]
\* What Reader.get returns: None, or the task with the status it was read under
\* (the task stands for its id: its other fields never change).
NoAnswer == [task |-> UnknownId, status |-> None]
GenericTask(task, status) == [task |-> task, status |-> status]
IdleReader == [pc |-> "idle", id |-> UnknownId, status |-> None, answer |-> NoAnswer]

Init ==
    /\ store \in StateSerializations(EmptyState)
    /\ lock = "free"
    /\ queue = <<>>
    /\ nextId = 1
    /\ now = 0
    /\ cache = [t \in Topics |-> 0]
    /\ created = [t \in Topics |-> 0]
    /\ notified = {}
    /\ run = [i \in Ids |-> IdleRun]
    /\ canceller = IdleCanceller
    /\ cleaner = IdleCleaner
    /\ reader = IdleReader
    /\ dispatcher = "running"
    /\ modifier = [c \in Callers |-> IdleCall]
    /\ events = [mutex |-> "free", call |-> [k \in CacheCallers |-> IdleGet]]
    /\ calls = NoCalls
    /\ orphans = {}

\* ------------------------------------------------------ clock (time.py)
\* The runner reads the clock with awareutcnow; the Adder and the Canceller
\* import `utcnow`, which time.py does not define: it is taken to read the
\* same clock.
awareutcnow == now
utcnow == now

Tick ==
    /\ now < MaxTime
    /\ now' = now + 1
    /\ UNCHANGED <<store, lock, queue, nextId, cache, created, notified, run,
                   canceller, cleaner, reader, dispatcher, modifier,
                   events, calls, orphans>>

\* ------------------------------------------------- EventCache (events.py)
\* EventCache.get: the event of the topic, created when the cache has none.
CacheGetEvent(topic) == IF cache[topic] = 0 THEN created[topic] + 1 ELSE cache[topic]
CacheGet(topic) ==
    /\ cache' = [cache EXCEPT ![topic] = CacheGetEvent(topic)]
    /\ created' = [created EXCEPT ![topic] = IF cache[topic] = 0 THEN @ + 1 ELSE @]
\* EventCache.delete
CacheDelete(topic) ==
    /\ cache' = [cache EXCEPT ![topic] = 0]
    /\ UNCHANGED created

\* ------------------------------------------------------- Adder (adder.py)
\* The dependency maps a request can carry: parameter names mapped to ids that
\* were handed out before, or to an id no task has.
DependencyMaps == UNION {[P -> 0..(nextId - 1)] : P \in SUBSET Params}

\* Mutant: the condition type is looked up before the operation type.
add_checks_condition_first(state, q, id, operation, condition, dependencies, scheduled) ==
    IF condition \notin ConditionTypes
    THEN [err |-> InvalidConditionError(condition), state |-> state, queue |-> q]
    ELSE IF operation \notin OperationTypes
    THEN [err |-> InvalidOperationError(operation), state |-> state, queue |-> q]
    ELSE LET task == [operation |-> [type |-> operation],
                      condition |-> [type |-> condition],
                      dependencies |-> dependencies]
             added == add_pending_task(state, id, task, scheduled)
         IN  IF added.err # NoError
             THEN [err |-> added.err, state |-> state, queue |-> q]
             ELSE [err |-> NoError, state |-> added.state, queue |-> Append(q, id)]

\* Adder.add as a function of the state, the queue and the request: the error
\* it raises (if any), the state it leaves and the queue it leaves.  The
\* operation factory is asked first, then the condition factory; then
\* add_pending_task and queue.put run under the lock.
add(state, q, id, operation, condition, dependencies, scheduled) ==
    IF operation \notin OperationTypes
    THEN [err |-> InvalidOperationError(operation), state |-> state, queue |-> q]
    ELSE IF condition \notin ConditionTypes
    THEN [err |-> InvalidConditionError(condition), state |-> state, queue |-> q]
    ELSE LET task == [operation |-> [type |-> operation],
                      condition |-> [type |-> condition],
                      dependencies |-> dependencies]
             added == add_pending_task(state, id, task, scheduled)
         IN  IF added.err # NoError
             THEN [err |-> added.err, state |-> state, queue |-> q]
             ELSE [err |-> NoError, state |-> added.state, queue |-> Append(q, id)]

\* Mutant: the id is put on the queue before add_pending_task is called, so
\* also when that call raises.
Schedule_enqueues_first(operation, condition, dependencies) ==
    /\ lock = "free"
    /\ nextId <= MaxTasks
    /\ LET added == add(State, queue, nextId, operation, condition, dependencies, utcnow)
       IN  IF added.err \in {InvalidOperationError(operation),
                             InvalidConditionError(condition)}
           THEN UNCHANGED <<store, queue, nextId>>
           ELSE IF added.err # NoError
           THEN /\ queue' = Append(queue, nextId)
                /\ UNCHANGED <<store, nextId>>
           ELSE /\ store' \in StateSerializations(added.state)
                /\ queue' = added.queue
                /\ nextId' = nextId + 1
    /\ UNCHANGED <<lock, now, cache, created, notified, run, canceller, cleaner, reader,
                   dispatcher, modifier, events, calls, orphans>>

\* A call of Adder.add.  A call that raises changes nothing.
Schedule(operation, condition, dependencies) ==
    /\ lock = "free"
    /\ nextId <= MaxTasks
    /\ LET added == add(State, queue, nextId, operation, condition, dependencies, utcnow)
       IN  IF added.err # NoError
           THEN UNCHANGED <<store, queue, nextId>>
           ELSE /\ store' \in StateSerializations(added.state)
                /\ queue' = added.queue
                /\ nextId' = nextId + 1
    /\ UNCHANGED <<lock, now, cache, created, notified, run, canceller, cleaner, reader,
                   dispatcher, modifier, events, calls, orphans>>

\* ------------------------------------------------- Canceller (canceller.py)
\* Canceller.cancel up to the notification of cancelled:<id>; the lock stays
\* held.  A transition that raises releases the lock and changes nothing.
Cancel(task_id) ==
    /\ lock = "free"
    /\ canceller.pc = "idle"
    /\ LET moved == move_task_to_cancelled(State, task_id, utcnow)
       IN  IF moved.err # NoError
           THEN UNCHANGED <<store, lock, cache, created, notified, canceller, calls>>
           ELSE /\ store' \in StateSerializations(moved.state)
                /\ lock' = "canceller"
                /\ CacheGet(CancelledTopic(task_id))
                /\ notified' = notified \cup
                       {<<CancelledTopic(task_id), CacheGetEvent(CancelledTopic(task_id))>>}
                /\ calls' = Notify(CancelledTopic(task_id))
                /\ canceller' = [pc |-> "finished", id |-> task_id]
    /\ UNCHANGED <<queue, nextId, now, run, cleaner, reader, dispatcher, modifier,
                   events, orphans>>

\* The rest of Canceller.cancel: get finished:<id>, notify it, release the lock.
CancelNotifyFinished ==
    /\ canceller.pc = "finished"
    /\ CacheGet(FinishedTopic(canceller.id))
    /\ notified' = notified \cup
           {<<FinishedTopic(canceller.id), CacheGetEvent(FinishedTopic(canceller.id))>>}
    /\ lock' = "free"
    /\ canceller' = IdleCanceller
    /\ calls' = Notify(FinishedTopic(canceller.id))
    /\ events' = Released({"canceller"})
    /\ UNCHANGED <<store, queue, nextId, now, run, cleaner, reader, dispatcher, modifier, orphans>>

\* ------------------------- Cleaner (cleaner.py), Modifier.remove_stale_tasks
\* Mutant: the back-edges of the removed task stay in `dependents`.
RemoveTask_keeps_dependents(state, task_id) ==
    LET status == state.statuses[task_id]
        tasks1 == IF status = CANCELLED
                  THEN [state.tasks EXCEPT !.cancelled = Pop(@, task_id)]
                  ELSE IF status = FAILED
                  THEN [state.tasks EXCEPT !.failed = Pop(@, task_id)]
                  ELSE IF status = COMPLETED
                  THEN [state.tasks EXCEPT !.completed = Pop(@, task_id)]
                  ELSE state.tasks
    IN  [tasks |-> tasks1,
         statuses |-> Pop(state.statuses, task_id),
         relationships |->
             [dependents |-> state.relationships.dependents,
              dependencies |-> Pop(state.relationships.dependencies, task_id)]]

\* Mutant: a `dependents` entry that lost its last member is kept, empty.
RemoveTask_keeps_empty_entry(state, task_id) ==
    LET status == state.statuses[task_id]
        rel == state.relationships
        dependencies == IF task_id \in DOMAIN rel.dependencies
                        THEN rel.dependencies[task_id] ELSE {}
        tasks1 == IF status = CANCELLED
                  THEN [state.tasks EXCEPT !.cancelled = Pop(@, task_id)]
                  ELSE IF status = FAILED
                  THEN [state.tasks EXCEPT !.failed = Pop(@, task_id)]
                  ELSE IF status = COMPLETED
                  THEN [state.tasks EXCEPT !.completed = Pop(@, task_id)]
                  ELSE state.tasks
    IN  [tasks |-> tasks1,
         statuses |-> Pop(state.statuses, task_id),
         relationships |->
             [dependents |-> [d \in DOMAIN rel.dependents |->
                                 IF d \in dependencies
                                 THEN rel.dependents[d] \ {task_id}
                                 ELSE rel.dependents[d]],
              dependencies |-> Pop(rel.dependencies, task_id)]]

\* Lines 295-315 of remove_stale_tasks: one task leaves the in-memory state.
RemoveTask(state, task_id) ==
    LET status == state.statuses[task_id]
        rel == state.relationships
        dependencies == IF task_id \in DOMAIN rel.dependencies
                        THEN rel.dependencies[task_id] ELSE {}
        tasks1 == IF status = CANCELLED
                  THEN [state.tasks EXCEPT !.cancelled = Pop(@, task_id)]
                  ELSE IF status = FAILED
                  THEN [state.tasks EXCEPT !.failed = Pop(@, task_id)]
                  ELSE IF status = COMPLETED
                  THEN [state.tasks EXCEPT !.completed = Pop(@, task_id)]
                  ELSE state.tasks
        kept == {d \in DOMAIN rel.dependents :
                    ~(d \in dependencies /\ rel.dependents[d] \ {task_id} = {})}
    IN  [tasks |-> tasks1,
         statuses |-> Pop(state.statuses, task_id),
         relationships |->
             [dependents |-> [d \in kept |-> IF d \in dependencies
                                             THEN rel.dependents[d] \ {task_id}
                                             ELSE rel.dependents[d]],
              dependencies |-> Pop(rel.dependencies, task_id)]]

\* The candidates of remove_stale_tasks: the finished tasks.
Pool(state) == {i \in DOMAIN state.statuses : state.statuses[i] \in Finished}

\* Cleaner.clean takes the lock; remove_stale_tasks reads the state and starts
\* its first pass (or, with an empty pool, goes straight to the save).
CleanStart ==
    /\ lock = "free"
    /\ cleaner.pc = "idle"
    /\ lock' = "cleaner"
    /\ cleaner' = [pc |-> IF Pool(State) = {} THEN "save" ELSE "scan",
                   state |-> State, pool |-> Pool(State), removed |-> {},
                   size |-> Cardinality(Pool(State)), scan |-> Pool(State)]
    /\ UNCHANGED <<store, queue, nextId, now, cache, created, notified, run,
                   canceller, reader, dispatcher, modifier, events, calls, orphans>>

\* Mutant: the scan is not repeated after a pass that removed a task.
CleanerAfter_single_pass(state, pool, removed, scan) ==
    IF scan # {}
    THEN [cleaner EXCEPT !.state = state, !.pool = pool, !.removed = removed,
                         !.scan = scan]
    ELSE [cleaner EXCEPT !.pc = "save", !.state = state, !.pool = pool,
                         !.removed = removed, !.scan = {}]

\* After the body of the for loop: the next task of the pass, a new pass when
\* the pool shrank (a pass over an empty pool does nothing and ends the while
\* loop), or the save.
CleanerAfter(state, pool, removed, scan) ==
    IF scan # {}
    THEN [cleaner EXCEPT !.state = state, !.pool = pool, !.removed = removed,
                         !.scan = scan]
    ELSE IF Cardinality(pool) # cleaner.size /\ pool # {}
    THEN [cleaner EXCEPT !.state = state, !.pool = pool, !.removed = removed,
                         !.scan = pool, !.size = Cardinality(pool)]
    ELSE [cleaner EXCEPT !.pc = "save", !.state = state, !.pool = pool,
                         !.removed = removed, !.scan = {}]

\* Mutant: a task with dependents is shown to the predicate like the others.
CleanScan_ignores_dependents(task_id, answer) ==
    /\ cleaner.pc = "scan"
    /\ task_id \in cleaner.scan
    /\ cleaner' =
          IF ~answer
          THEN CleanerAfter(cleaner.state, cleaner.pool, cleaner.removed,
                            cleaner.scan \ {task_id})
          ELSE CleanerAfter(RemoveTask(cleaner.state, task_id),
                            cleaner.pool \ {task_id},
                            cleaner.removed \cup {task_id},
                            cleaner.scan \ {task_id})
    /\ UNCHANGED <<store, lock, queue, nextId, now, cache, created, notified, run,
                   canceller, reader, dispatcher, modifier, events, calls, orphans>>

\* One iteration of the for loop: a task with dependents is skipped, the others
\* are shown to the predicate, which answers keep or remove.
CleanScan(task_id, answer) ==
    /\ cleaner.pc = "scan"
    /\ task_id \in cleaner.scan
    /\ cleaner' =
          IF task_id \in DOMAIN cleaner.state.relationships.dependents \/ ~answer
          THEN CleanerAfter(cleaner.state, cleaner.pool, cleaner.removed,
                            cleaner.scan \ {task_id})
          ELSE CleanerAfter(RemoveTask(cleaner.state, task_id),
                            cleaner.pool \ {task_id},
                            cleaner.removed \cup {task_id},
                            cleaner.scan \ {task_id})
    /\ UNCHANGED <<store, lock, queue, nextId, now, cache, created, notified, run,
                   canceller, reader, dispatcher, modifier, events, calls, orphans>>

\* Mutant: the state is saved on the way out of a call that raises.
CleanRaise_saves(task_id) ==
    /\ cleaner.pc = "scan"
    /\ task_id \in cleaner.scan
    /\ task_id \notin DOMAIN cleaner.state.relationships.dependents
    /\ store' \in StateSerializations(cleaner.state)
    /\ lock' = "free"
    /\ cleaner' = [IdleCleaner EXCEPT !.removed = cleaner.removed]
    /\ UNCHANGED <<queue, nextId, now, cache, created, notified, run, canceller, reader,
                   dispatcher, modifier, events, calls, orphans>>

\* The predicate raises for the task it is shown, or the call is cancelled
\* while it awaits the predicate: remove_stale_tasks is left without its
\* _save_state and Cleaner.clean releases the lock.  The tasks the call had
\* taken out of its in-memory state stay on record until the next call.
CleanRaise(task_id) ==
    /\ cleaner.pc = "scan"
    /\ task_id \in cleaner.scan
    /\ task_id \notin DOMAIN cleaner.state.relationships.dependents
    /\ lock' = "free"
    /\ cleaner' = [IdleCleaner EXCEPT !.removed = cleaner.removed]
    /\ UNCHANGED <<store, queue, nextId, now, cache, created, notified, run, canceller,
                   reader, dispatcher, modifier, events, calls, orphans>>

\* _save_state at the end of remove_stale_tasks, and the release of the lock;
\* cleaner.removed in the state before is the set the call returns.
CleanSave ==
    /\ cleaner.pc = "save"
    /\ store' \in StateSerializations(cleaner.state)
    /\ lock' = "free"
    /\ cleaner' = IdleCleaner
    /\ UNCHANGED <<queue, nextId, now, cache, created, notified, run, canceller, reader,
                   dispatcher, modifier, events, calls, orphans>>

\* ------------------------------------------------- Dispatcher (runner.py)
\* _process_queue pops an id and creates its handler; _handle_task_added
\* creates the pipeline and the cancellation monitor of the id, and the
\* monitor takes the event of cancelled:<id> from the cache.
DispatchPop ==
    /\ dispatcher = "running"
    /\ queue # <<>>
    /\ run' = [run EXCEPT ![Head(queue)] = [IdleRun EXCEPT !.pc = "get_task"]]
    /\ CacheGet(CancelledTopic(Head(queue)))
    /\ queue' = Tail(queue)
    /\ UNCHANGED <<store, lock, nextId, now, notified, canceller, cleaner, reader,
                   dispatcher, modifier, events, calls, orphans>>

\* The exit of Runner.run: _process_queue is cancelled, pops no more ids and
\* cancels every handler it created.  A handler in its first wait catches
\* the CancelledError, calls run.cancel() and waits for its pipeline.  A
\* handler that had called run.cancel() before, when its monitor ended, is in
\* the wait of its finally: the CancelledError ends it there, whatever its
\* pipeline is doing.
Shutdown ==
    /\ dispatcher = "running"
    /\ dispatcher' = "stopped"
    /\ orphans' = {i \in Ids : run[i].cancel = "delivered" /\ run[i].pc \notin {"none", "done"}}
    /\ UNCHANGED <<store, lock, queue, nextId, now, cache, created, notified, run,
                   canceller, cleaner, reader, modifier, events, calls>>

\* asyncio.wait(handlers) in the finally of _process_queue is over when every
\* handler has ended; `await task` in Runner.run then returns.
ShutdownReturn ==
    /\ dispatcher = "stopped"
    /\ \A i \in Ids \ orphans : run[i].pc \in {"none", "done"}
    /\ dispatcher' = "exited"
    /\ UNCHANGED <<store, lock, queue, nextId, now, cache, created, notified, run,
                   canceller, cleaner, reader, modifier, events, calls, orphans>>

\* ------------------------------------------ Driver: _run_task (runner.py)
\* The pipeline leaves the scope of _manage_finished_event: what it held is
\* dropped and the deletion of finished:<id> is all that is left to do.
Leave(r) == [IdleRun EXCEPT !.pc = "delete"]
\* The pipeline has ended; the handler cancels the monitor and ends too.
Ended(r) == [IdleRun EXCEPT !.pc = "done"]
\* The order in which _resolve_dependencies goes through the parameters: the
\* order of the request's dict.  The names are interchangeable, so the model
\* lets every request list "a" before "b".
ParamOrder == <<"a", "b">>
FirstParam(todo) == ParamOrder[CHOOSE k \in 1..Len(ParamOrder) :
                        /\ ParamOrder[k] \in todo
                        /\ \A j \in 1..(k - 1) : ParamOrder[j] \notin todo]
\* The next iteration of the loop of _resolve_dependencies: resolve is called
\* for the next parameter and creates its watcher task (which has not run
\* yet); after the last one the pipeline calls condition.wait.
ResolveNext(r, todo) ==
    IF todo = {}
    THEN [r EXCEPT !.pc = "condition", !.todo = {}, !.param = None,
                   !.wpc = "none", !.wev = 0]
    ELSE [r EXCEPT !.pc = "res_read", !.todo = todo, !.param = FirstParam(todo),
                   !.wpc = "created", !.wev = 0]

\* Mutant: _get_task does not compare the status with pending and hands the
\* task of any record over.
RunGetTask_accepts_any_status(i) ==
    /\ run[i].pc = "get_task"
    /\ lock \in {"free", Holder(i)}
    /\ lock' = "free"
    /\ LET status == Get(State.statuses, i)
       IN  run' = [run EXCEPT ![i] =
                      IF status = None
                      THEN Ended(@)
                      ELSE [@ EXCEPT !.pc = "get_finished",
                                     !.task = State.tasks[status][i].task]]
    /\ UNCHANGED <<store, queue, nextId, now, cache, created, notified,
                   canceller, cleaner, reader, dispatcher, modifier,
                   events, calls, orphans>>

\* _get_task: the task, read under the lock; an id that is absent or not
\* pending raises and ends the pipeline.
RunGetTask(i) ==
    /\ run[i].pc = "get_task"
    /\ lock \in {"free", Holder(i)}
    /\ lock' = "free"
    /\ LET status == Get(State.statuses, i)
           task == State.tasks.pending[i]
       IN  run' = [run EXCEPT ![i] =
                      IF status # PENDING \/ i \notin DOMAIN State.tasks.pending
                      THEN Ended(@)
                      ELSE [@ EXCEPT !.pc = "get_finished", !.task = task.task]]
    /\ UNCHANGED <<store, queue, nextId, now, cache, created, notified,
                   canceller, cleaner, reader, dispatcher, modifier,
                   events, calls, orphans>>

\* Mutant: EventCache.get hands the event back with its mutex still held.
RunGetFinished_keeps_mutex(i) ==
    /\ run[i].pc = "get_finished"
    /\ run[i].task.operation.type \in OperationTypes
    /\ run[i].task.condition.type \in ConditionTypes
    /\ CacheGet(FinishedTopic(i))
    /\ run' = [run EXCEPT ![i] =
                  ResolveNext([@ EXCEPT !.finished = CacheGetEvent(FinishedTopic(i))],
                              DOMAIN run[i].task.dependencies)]
    /\ calls' = Called(i)
    /\ UNCHANGED <<store, lock, queue, nextId, now, notified, canceller, cleaner, reader,
                   dispatcher, modifier, events, orphans>>

\* _manage_finished_event takes the event of finished:<id>; the factories
\* create the operation and the condition; _resolve_dependencies starts.
RunGetFinished(i) ==
    /\ run[i].pc = "get_finished"
    /\ run[i].task.operation.type \in OperationTypes
    /\ run[i].task.condition.type \in ConditionTypes
    /\ CacheGet(FinishedTopic(i))
    /\ run' = [run EXCEPT ![i] =
                  ResolveNext([@ EXCEPT !.finished = CacheGetEvent(FinishedTopic(i))],
                              DOMAIN run[i].task.dependencies)]
    /\ calls' = Called(i)
    /\ events' = Released({Holder(i)})
    /\ UNCHANGED <<store, lock, queue, nextId, now, notified, canceller, cleaner, reader,
                   dispatcher, modifier, orphans>>

\* _wait_until_finished runs up to its wait: it takes the event of
\* finished:<dependency> from the cache.
WatcherGet(i) ==
    /\ run[i].wpc = "created"
    /\ LET topic == FinishedTopic(run[i].task.dependencies[run[i].param])
       IN  /\ CacheGet(topic)
           /\ run' = [run EXCEPT ![i] = [@ EXCEPT !.wpc = "waiting",
                                                  !.wev = CacheGetEvent(topic)]]
    /\ events' = Released({Watcher(i)})
    /\ UNCHANGED <<store, lock, queue, nextId, now, notified, canceller, cleaner, reader,
                   dispatcher, modifier, calls, orphans>>

\* Mutant: only a cancelled dependency is unsuccessful; a failed one counts as
\* resolved, with its error as the result.
Resolved_accepts_failed(r, state, dependency) ==
    LET status == Get(state.statuses, dependency)
    IN  IF status = CANCELLED
        THEN [r EXCEPT !.pc = "fail", !.error = DependencyMessage(dependency, status),
                       !.wpc = "none", !.wev = 0, !.param = None]
        ELSE IF status = FAILED
        THEN ResolveNext([r EXCEPT !.deps = Put(r.deps, r.param, OpError)],
                         r.todo \ {r.param})
        ELSE IF status = COMPLETED
        THEN ResolveNext([r EXCEPT !.deps = Put(r.deps, r.param,
                                           state.tasks.completed[dependency].result)],
                         r.todo \ {r.param})
        ELSE Leave(r)

\* Mutant: the status of the answer is collected instead of its result.
Resolved_collects_status(r, state, dependency) ==
    LET status == Get(state.statuses, dependency)
    IN  IF status \in {CANCELLED, FAILED}
        THEN [r EXCEPT !.pc = "fail", !.error = DependencyMessage(dependency, status),
                       !.wpc = "none", !.wev = 0, !.param = None]
        ELSE IF status = COMPLETED
        THEN ResolveNext([r EXCEPT !.deps = Put(r.deps, r.param, status)],
                         r.todo \ {r.param})
        ELSE Leave(r)

\* What _resolve_dependencies does with the answer of resolve, given the
\* status the resolver read: an unknown or (second read) unfinished task gives
\* None and DependencyNotFoundError, which nothing in _run_task catches; a
\* cancelled or failed one gives UnsuccessfulDependencyError, which sends the
\* pipeline to _set_task_as_failed; a completed one gives its result.
Resolved(r, state, dependency) ==
    LET status == Get(state.statuses, dependency)
    IN  IF status \in {CANCELLED, FAILED}
        THEN [r EXCEPT !.pc = "fail", !.error = DependencyMessage(dependency, status),
                       !.wpc = "none", !.wev = 0, !.param = None]
        ELSE IF status = COMPLETED
        THEN ResolveNext([r EXCEPT !.deps = Put(r.deps, r.param,
                                           state.tasks.completed[dependency].result)],
                         r.todo \ {r.param})
        ELSE Leave(r)

\* The first state read of resolve; an unfinished task sends it to the wait.
ResolveRead(i) ==
    /\ run[i].pc = "res_read"
    /\ lock \in {"free", Holder(i)}
    /\ lock' = "free"
    /\ LET dependency == run[i].task.dependencies[run[i].param]
       IN  run' = [run EXCEPT ![i] =
                      IF Get(State.statuses, dependency) \in {PENDING, RUNNING}
                      THEN [@ EXCEPT !.pc = "res_wait"]
                      ELSE Resolved(@, State, dependency)]
    /\ calls' = Called(i)
    /\ events' = Released(IF run[i].wpc' = "created" /\ run[i].param' = run[i].param
                           THEN {} ELSE {Watcher(i)})
    /\ UNCHANGED <<store, queue, nextId, now, cache, created, notified,
                   canceller, cleaner, reader, dispatcher, modifier, orphans>>

\* The watcher's event is notified: the watcher ends and resolve goes on to
\* its second read.
ResolveWake(i) ==
    /\ run[i].pc = "res_wait"
    /\ run[i].wpc = "waiting"
    /\ <<FinishedTopic(run[i].task.dependencies[run[i].param]), run[i].wev>> \in notified
    /\ run' = [run EXCEPT ![i] = [@ EXCEPT !.pc = "res_read2", !.wpc = "none", !.wev = 0]]
    /\ UNCHANGED <<store, lock, queue, nextId, now, cache, created, notified,
                   canceller, cleaner, reader, dispatcher, modifier,
                   events, calls, orphans>>

\* The second state read of resolve.
ResolveReread(i) ==
    /\ run[i].pc = "res_read2"
    /\ lock \in {"free", Holder(i)}
    /\ lock' = "free"
    /\ run' = [run EXCEPT ![i] =
                  Resolved(@, State, run[i].task.dependencies[run[i].param])]
    /\ calls' = Called(i)
    /\ UNCHANGED <<store, queue, nextId, now, cache, created, notified,
                   canceller, cleaner, reader, dispatcher, modifier,
                   events, orphans>>

\* Mutant: the event is notified whether the transition succeeded or raised.
SetTaskAsFailed_always_notifies(i, error) ==
    /\ lock \in {"free", Holder(i)}
    /\ lock' = "free"
    /\ LET moved == move_task_to_failed(State, i, awareutcnow, error)
       IN  IF moved.err # NoError
           THEN UNCHANGED store
           ELSE store' \in StateSerializations(moved.state)
    /\ notified' = notified \cup {<<FinishedTopic(i), run[i].finished>>}
    /\ run' = [run EXCEPT ![i] = Leave(@)]
    /\ calls' = Notify(FinishedTopic(i))
    /\ UNCHANGED <<queue, nextId, now, cache, created, canceller, cleaner, reader,
                   dispatcher, modifier, events, orphans>>

\* Mutant: the failure is committed and the event is left alone.
SetTaskAsFailed_without_notify(i, error) ==
    /\ lock \in {"free", Holder(i)}
    /\ lock' = "free"
    /\ LET moved == move_task_to_failed(State, i, awareutcnow, error)
       IN  IF moved.err # NoError
           THEN UNCHANGED store
           ELSE store' \in StateSerializations(moved.state)
    /\ run' = [run EXCEPT ![i] = Leave(@)]
    /\ UNCHANGED <<queue, nextId, now, cache, created, notified, canceller, cleaner,
                   reader, dispatcher, modifier, events, calls, orphans>>

\* _set_task_as_failed: move_task_to_failed and finished.notify under the lock;
\* the pipeline returns.  A transition that raises ends the pipeline without
\* the notify.
SetTaskAsFailed(i, error) ==
    /\ lock \in {"free", Holder(i)}
    /\ lock' = "free"
    /\ LET moved == move_task_to_failed(State, i, awareutcnow, error)
       IN  IF moved.err # NoError
           THEN UNCHANGED <<store, notified, calls>>
           ELSE /\ store' \in StateSerializations(moved.state)
                /\ notified' = notified \cup {<<FinishedTopic(i), run[i].finished>>}
                /\ calls' = Notify(FinishedTopic(i))
    /\ run' = [run EXCEPT ![i] = Leave(@)]
    /\ UNCHANGED <<queue, nextId, now, cache, created, canceller, cleaner, reader,
                   dispatcher, modifier, events, orphans>>

\* UnsuccessfulDependencyError was caught: _set_task_as_failed.  Where the
\* failures of the plugins are steps of their own, they get here as well.
DependencyFailed(i) ==
    /\ run[i].pc = "fail"
    /\ SetTaskAsFailed(i, run[i].error)

\* Mutant: the lock taken for the transition is kept while operation.run runs.
SetTaskAsRunning_keeps_lock(i) ==
    /\ lock \in {"free", Holder(i)}
    /\ LET moved == move_task_to_running(State, i, awareutcnow)
       IN  IF moved.err # NoError
           THEN /\ run' = [run EXCEPT ![i] = Leave(@)]
                /\ lock' = "free"
                /\ UNCHANGED store
           ELSE /\ store' \in StateSerializations(moved.state)
                /\ lock' = Holder(i)
                /\ run' = [run EXCEPT ![i] = [@ EXCEPT !.pc = "operation"]]
    /\ calls' = Called(i)
    /\ UNCHANGED <<queue, nextId, now, cache, created, notified, canceller, cleaner,
                   reader, dispatcher, modifier, events, orphans>>

\* Mutant: a refused transition is ignored and operation.run is invoked anyway.
SetTaskAsRunning_runs_anyway(i) ==
    /\ lock \in {"free", Holder(i)}
    /\ lock' = "free"
    /\ LET moved == move_task_to_running(State, i, awareutcnow)
       IN  IF moved.err # NoError
           THEN UNCHANGED store
           ELSE store' \in StateSerializations(moved.state)
    /\ run' = [run EXCEPT ![i] = [@ EXCEPT !.pc = "operation"]]
    /\ calls' = Called(i)
    /\ UNCHANGED <<queue, nextId, now, cache, created, notified, canceller, cleaner,
                   reader, dispatcher, modifier, events, orphans>>

\* _set_task_as_running: move_task_to_running under the lock; operation.run is
\* invoked next, with the resolved dependencies.  A transition that raises
\* ends the pipeline.
SetTaskAsRunning(i) ==
    /\ lock \in {"free", Holder(i)}
    /\ lock' = "free"
    /\ LET moved == move_task_to_running(State, i, awareutcnow)
       IN  IF moved.err # NoError
           THEN /\ run' = [run EXCEPT ![i] = Leave(@)]
                /\ UNCHANGED store
           ELSE /\ store' \in StateSerializations(moved.state)
                /\ run' = [run EXCEPT ![i] = [@ EXCEPT !.pc = "operation"]]
    /\ calls' = Called(i)
    /\ UNCHANGED <<queue, nextId, now, cache, created, notified, canceller, cleaner,
                   reader, dispatcher, modifier, events, orphans>>

\* condition.wait returns: _set_task_as_running.
ConditionReturn(i) ==
    /\ run[i].pc = "condition"
    /\ SetTaskAsRunning(i)

\* condition.wait raises an error that is not a cancellation:
\* _set_task_as_failed.
ConditionRaise(i) ==
    /\ run[i].pc = "condition"
    /\ SetTaskAsFailed(i, ConditionFailedMessage(run[i].task.condition.type, OpError))

\* _set_task_as_completed: move_task_to_completed and finished.notify under
\* the lock.  A transition that raises ends the pipeline without the notify.
SetTaskAsCompleted(i, result) ==
    /\ lock \in {"free", Holder(i)}
    /\ lock' = "free"
    /\ LET moved == move_task_to_completed(State, i, awareutcnow, result)
       IN  IF moved.err # NoError
           THEN UNCHANGED <<store, notified, calls>>
           ELSE /\ store' \in StateSerializations(moved.state)
                /\ notified' = notified \cup {<<FinishedTopic(i), run[i].finished>>}
                /\ calls' = Notify(FinishedTopic(i))
    /\ run' = [run EXCEPT ![i] = Leave(@)]
    /\ UNCHANGED <<queue, nextId, now, cache, created, canceller, cleaner, reader,
                   dispatcher, modifier, events, orphans>>

\* operation.run returns a result: _set_task_as_completed.
OperationReturn(i, result) ==
    /\ run[i].pc = "operation"
    /\ SetTaskAsCompleted(i, result)

\* operation.run raises an error that is not a cancellation:
\* _set_task_as_failed.
OperationRaise(i) ==
    /\ run[i].pc = "operation"
    /\ SetTaskAsFailed(i, OperationFailedMessage(run[i].task.operation.type, OpError))

\* The finally of _manage_finished_event: finished:<id> leaves the cache.
RunDeleteFinished(i) ==
    /\ run[i].pc = "delete"
    /\ CacheDelete(FinishedTopic(i))
    /\ run' = [run EXCEPT ![i] = Ended(@)]
    /\ events' = Released({Holder(i)})
    /\ UNCHANGED <<store, lock, queue, nextId, now, notified, canceller, cleaner, reader,
                   dispatcher, modifier, calls, orphans>>

\* ----------------- Driver: _monitor_cancellation, _handle_task_added (runner.py)
\* Where the monitor of the driver is: it waits on cancelled:<id> from the
\* dispatch on, and ends when the event is notified or when the handler
\* cancels it because the pipeline ended.
MonitorPc(i) ==
    IF run[i].pc = "none" THEN "none"
    ELSE IF run[i].pc = "done" \/ run[i].cancel # "no" THEN "done"
    ELSE "wait"

\* cancelled:<id> is notified: the monitor ends, the handler wakes and calls
\* run.cancel().  Or _process_queue was cancelled and cancelled its
\* handlers: a handler still in its first wait calls run.cancel() as well.
CancelRequested(i) ==
    /\ run[i].cancel = "no"
    /\ run[i].pc \notin {"none", "done", "delete"}
    /\ \/ <<CancelledTopic(i), cache[CancelledTopic(i)]>> \in notified
       \/ dispatcher = "stopped"

\* The CancelledError of run.cancel() reaches the pipeline where it is
\* suspended; inside a lock section the `async with` releases the lock.
\* Before the scope of the finished event the pipeline just ends; inside it
\* the finally runs.  While resolve awaits a watcher that is waiting, the
\* watcher takes the cancellation, swallows it and returns, so resolve goes
\* on to its second read as if the event had been notified.
RunCancelled(i) ==
    /\ CancelRequested(i)
    /\ run' = [run EXCEPT ![i] =
                  IF @.pc \in {"get_task", "get_finished"}
                  THEN Ended(@)
                  ELSE IF @.pc = "res_wait" /\ @.wpc = "waiting"
                  THEN [@ EXCEPT !.pc = "res_read2", !.wpc = "none", !.wev = 0,
                                 !.cancel = "delivered"]
                  ELSE Leave(@)]
    /\ lock' = IF lock = Holder(i) THEN "free" ELSE lock
    /\ events' = Released({Holder(i), Watcher(i)})
    /\ UNCHANGED <<store, queue, nextId, now, cache, created, notified,
                   canceller, cleaner, reader, dispatcher, modifier, calls, orphans>>

\* A condition or an operation that ignores the cancellation and goes on.
IgnoreCancel(i) ==
    /\ CancelRequested(i)
    /\ run[i].pc \in {"condition", "operation"}
    /\ run' = [run EXCEPT ![i] = [@ EXCEPT !.cancel = "delivered"]]
    /\ UNCHANGED <<store, lock, queue, nextId, now, cache, created, notified,
                   canceller, cleaner, reader, dispatcher, modifier,
                   events, calls, orphans>>

\* ------------------------------------------------- reader (readers.py)
\* <Status>TasksReader.get: the task under `tasks.<status>`, or None.
StatusTasksReaderGet(state, status, task_id) ==
    IF task_id \in DOMAIN state.tasks[status]
    THEN GenericTask(task_id, status)
    ELSE NoAnswer

\* Reader.get, first lock section: the status of the id is read from the
\* state; an id without a status is answered with None at once.
ReaderGetStatus(task_id) ==
    /\ reader.pc = "idle"
    /\ lock = "free"
    /\ LET status == Get(State.statuses, task_id)
       IN  reader' = [pc |-> IF status = None THEN "returned" ELSE "status",
                      id |-> task_id, status |-> status, answer |-> NoAnswer]
    /\ UNCHANGED <<store, lock, queue, nextId, now, cache, created, notified, run,
                   canceller, cleaner, dispatcher, modifier, events, calls, orphans>>

\* Reader.get, second lock section: the reader of that status reads the
\* state again and looks the id up under `tasks.<status>`.
ReaderGetTask ==
    /\ reader.pc = "status"
    /\ lock = "free"
    /\ reader' = [reader EXCEPT !.pc = "returned",
                                !.answer = StatusTasksReaderGet(State, reader.status, reader.id)]
    /\ UNCHANGED <<store, lock, queue, nextId, now, cache, created, notified, run,
                   canceller, cleaner, dispatcher, modifier, events, calls, orphans>>

\* The caller has the answer; another call may follow.
ReaderReturn ==
    /\ reader.pc = "returned"
    /\ reader' = IdleReader
    /\ UNCHANGED <<store, lock, queue, nextId, now, cache, created, notified, run,
                   canceller, cleaner, dispatcher, modifier, events, calls, orphans>>

\* ---------------------------------------------------------- specification
Driver(i) ==
    \/ RunGetTask(i)
    \/ RunGetFinished(i)
    \/ WatcherGet(i)
    \/ ResolveRead(i)
    \/ ResolveWake(i)
    \/ ResolveReread(i)
    \/ DependencyFailed(i)
    \/ ConditionReturn(i)
    \/ ConditionRaise(i)
    \/ \E result \in Results : OperationReturn(i, result)
    \/ OperationRaise(i)
    \/ RunDeleteFinished(i)
    \/ RunCancelled(i)
    \/ IgnoreCancel(i)

Next ==
    \/ Tick
    \/ \E operation \in OperationTypes \cup {"nope"},
          condition \in ConditionTypes \cup {"nope"},
          dependencies \in DependencyMaps :
            Schedule(operation, condition, dependencies)
    \/ \E task_id \in Ids \cup {UnknownId} : Cancel(task_id)
    \/ CancelNotifyFinished
    \/ CleanStart
    \/ \E task_id \in Ids, answer \in BOOLEAN : CleanScan(task_id, answer)
    \/ CleanSave
    \/ DispatchPop
    \/ \E i \in Ids : Driver(i)

Spec == Init /\ [][Next]_vars

\* The engine with a cleaning strategy that accepts every task it is shown.
NextClean ==
    \/ Tick
    \/ \E operation \in OperationTypes \cup {"nope"},
          condition \in ConditionTypes \cup {"nope"},
          dependencies \in DependencyMaps :
            Schedule(operation, condition, dependencies)
    \/ \E task_id \in Ids \cup {UnknownId} : Cancel(task_id)
    \/ CancelNotifyFinished
    \/ CleanStart
    \/ \E task_id \in Ids : CleanScan(task_id, TRUE)
    \/ CleanSave
    \/ DispatchPop
    \/ \E i \in Ids : Driver(i)

SpecClean == Init /\ [][NextClean]_vars

\* The engine with a client that reads single tasks, the clock standing still
\* and nobody cleaning: an id that has a status keeps one.
NextReader ==
    \/ \E operation \in OperationTypes \cup {"nope"},
          condition \in ConditionTypes \cup {"nope"},
          dependencies \in DependencyMaps :
            Schedule(operation, condition, dependencies)
    \/ \E task_id \in Ids \cup {UnknownId} : Cancel(task_id)
    \/ CancelNotifyFinished
    \/ DispatchPop
    \/ \E i \in Ids : Driver(i)
    \/ \E task_id \in Ids \cup {UnknownId} : ReaderGetStatus(task_id)
    \/ ReaderGetTask
    \/ ReaderReturn

SpecReader == Init /\ [][NextReader]_vars

\* The dependency maps a caller of the Modifier can pass with a new task: ids
\* handed out before, an id no task has, or the id of the new task itself.
ModifierDependencyMaps == UNION {[P -> 0..nextId] : P \in SUBSET Params}

\* The Modifier on its own: its transitions called in any order on any id,
\* each one a _get_state, a mutation and a _save_state.
ModifierAdd(dependencies) ==
    /\ nextId <= MaxStored
    /\ LET task == [operation |-> [type |-> "echo"], condition |-> [type |-> "always"],
                    dependencies |-> dependencies]
           added == add_pending_task(State, nextId, task, now)
       IN  /\ added.err = NoError
           /\ store' \in StateSerializations(added.state)
    /\ nextId' = nextId + 1
    /\ UNCHANGED <<lock, queue, now, cache, created, notified, run, canceller, cleaner,
                   reader, dispatcher, modifier, events, calls, orphans>>

\* Modifier._save_state: the state is serialized and handed to store.set, which
\* writes it or raises and leaves the store as it is. The values the store
\* may hold afterwards.
_save_state(persisted, state, written) ==
    IF written THEN StateSerializations(state) ELSE {persisted}

\* The transition to `status`, as the Modifier computes it on the state read.
move_task_to(state, status, task_id, time) ==
    CASE status = RUNNING -> move_task_to_running(state, task_id, time)
      [] status = CANCELLED -> move_task_to_cancelled(state, task_id, time)
      [] status = FAILED -> move_task_to_failed(state, task_id, time, OpError)
      [] status = COMPLETED -> move_task_to_completed(state, task_id, time, "r1")

\* A call of a transition, refused ones and ones whose write fails included:
\* the values the store may hold when the call is over.
move_task(persisted, status, task_id, time, written) ==
    LET moved == move_task_to(StateDeserialize(persisted), status, task_id, time)
    IN  IF moved.err # NoError THEN {persisted}
        ELSE _save_state(persisted, moved.state, written)

ModifierMove(status, task_id, written) ==
    /\ store' \in move_task(store, status, task_id, now, written)
    /\ UNCHANGED <<lock, queue, nextId, now, cache, created, notified, run, canceller,
                   cleaner, reader, dispatcher, modifier, events, calls, orphans>>

\* remove_stale_tasks with a predicate that refuses every task: the state is
\* read and saved again as it is.
ModifierResave ==
    /\ store' \in StateSerializations(State)
    /\ UNCHANGED <<lock, queue, nextId, now, cache, created, notified, run, canceller,
                   cleaner, reader, dispatcher, modifier, events, calls, orphans>>

NextModifier ==
    \/ \E dependencies \in ModifierDependencyMaps : ModifierAdd(dependencies)
    \/ \E status \in Status \ {PENDING}, task_id \in 0..MaxStored, written \in BOOLEAN :
          ModifierMove(status, task_id, written)
    \/ ModifierResave

SpecModifier == Init /\ [][NextModifier]_vars

\* The engine left to run under fair scheduling, with nobody cancelling or
\* cleaning, and with conditions and operations that return: every task of
\* the event loop that can take a step eventually takes it.
DriverLive(i) ==
    \/ RunGetTask(i)
    \/ RunGetFinished(i)
    \/ WatcherGet(i)
    \/ ResolveRead(i)
    \/ ResolveWake(i)
    \/ ResolveReread(i)
    \/ ConditionReturn(i)
    \/ \E result \in Results : OperationReturn(i, result)
    \/ RunDeleteFinished(i)

NextLive ==
    \/ \E operation \in OperationTypes, condition \in ConditionTypes,
          dependencies \in DependencyMaps :
            Schedule(operation, condition, dependencies)
    \/ DispatchPop
    \/ \E i \in Ids : DriverLive(i)

SpecLive ==
    /\ Init
    /\ [][NextLive]_vars
    /\ WF_vars(DispatchPop)
    /\ \A i \in Ids : WF_vars(DriverLive(i))

\* The engine with clients that cancel, under fair scheduling.  The steps the
\* event loop takes on its own are fair: the dispatcher, the second half of a
\* cancel, the driver's own steps and the delivery of run.cancel().  A
\* condition or an operation returns or raises when it pleases, and always
\* lets a cancellation it is handed through.
DriverStep(i) ==
    \/ RunGetTask(i)
    \/ RunGetFinished(i)
    \/ WatcherGet(i)
    \/ ResolveRead(i)
    \/ ResolveWake(i)
    \/ ResolveReread(i)
    \/ DependencyFailed(i)
    \/ RunDeleteFinished(i)

PluginStep(i) ==
    \/ ConditionReturn(i)
    \/ ConditionRaise(i)
    \/ \E result \in Results : OperationReturn(i, result)
    \/ OperationRaise(i)

NextCancel ==
    \/ \E operation \in OperationTypes, condition \in ConditionTypes,
          dependencies \in DependencyMaps :
            Schedule(operation, condition, dependencies)
    \/ \E task_id \in Ids : Cancel(task_id)
    \/ CancelNotifyFinished
    \/ DispatchPop
    \/ \E i \in Ids : DriverStep(i) \/ PluginStep(i) \/ RunCancelled(i)

SpecCancel ==
    /\ Init
    /\ [][NextCancel]_vars
    /\ WF_vars(CancelNotifyFinished)
    /\ WF_vars(DispatchPop)
    /\ \A i \in Ids : WF_vars(DriverStep(i)) /\ WF_vars(RunCancelled(i))

\* The engine with its shutdown: clients schedule and cancel, and at some
\* point the context of Runner.run is left.  Conditions and operations let a
\* cancellation they are handed through.
NextShutdown ==
    \/ \E operation \in OperationTypes, condition \in ConditionTypes,
          dependencies \in DependencyMaps :
            Schedule(operation, condition, dependencies)
    \/ \E task_id \in Ids : Cancel(task_id)
    \/ CancelNotifyFinished
    \/ DispatchPop
    \/ Shutdown
    \/ ShutdownReturn
    \/ \E i \in Ids : DriverStep(i) \/ PluginStep(i) \/ RunCancelled(i)

SpecShutdown == Init /\ [][NextShutdown]_vars

\* The engine with the lock sections of the drivers spelled out: a pipeline
\* that is about to read the state or to make a transition first takes the
\* lock (and may be suspended holding it, in store.get or store.set), then
\* runs the section and releases.  condition.wait and operation.run come to
\* an end in a step of their own, before the lock is asked for.
LockSections == {"get_task", "res_read", "res_read2", "fail", "set_running", "set_completed"}

DriverAcquire(i) ==
    /\ run[i].pc \in LockSections
    /\ lock = "free"
    /\ lock' = Holder(i)
    /\ UNCHANGED <<store, queue, nextId, now, cache, created, notified, run,
                   canceller, cleaner, reader, dispatcher, modifier,
                   events, calls, orphans>>

ConditionWaitReturns(i) ==
    /\ run[i].pc = "condition"
    /\ run' = [run EXCEPT ![i] = [@ EXCEPT !.pc = "set_running"]]
    /\ UNCHANGED <<store, lock, queue, nextId, now, cache, created, notified,
                   canceller, cleaner, reader, dispatcher, modifier,
                   events, calls, orphans>>

ConditionWaitRaises(i) ==
    /\ run[i].pc = "condition"
    /\ run' = [run EXCEPT ![i] =
                  [@ EXCEPT !.pc = "fail",
                            !.error = ConditionFailedMessage(run[i].task.condition.type, OpError)]]
    /\ UNCHANGED <<store, lock, queue, nextId, now, cache, created, notified,
                   canceller, cleaner, reader, dispatcher, modifier,
                   events, calls, orphans>>

SetRunning(i) ==
    /\ run[i].pc = "set_running"
    /\ SetTaskAsRunning(i)

OperationRunReturns(i) ==
    /\ run[i].pc = "operation"
    /\ run' = [run EXCEPT ![i] = [@ EXCEPT !.pc = "set_completed"]]
    /\ UNCHANGED <<store, lock, queue, nextId, now, cache, created, notified,
                   canceller, cleaner, reader, dispatcher, modifier,
                   events, calls, orphans>>

OperationRunRaises(i) ==
    /\ run[i].pc = "operation"
    /\ run' = [run EXCEPT ![i] =
                  [@ EXCEPT !.pc = "fail",
                            !.error = OperationFailedMessage(run[i].task.operation.type, OpError)]]
    /\ UNCHANGED <<store, lock, queue, nextId, now, cache, created, notified,
                   canceller, cleaner, reader, dispatcher, modifier,
                   events, calls, orphans>>

SetCompleted(i, result) ==
    /\ run[i].pc = "set_completed"
    /\ SetTaskAsCompleted(i, result)

\* A factory that answers None for a type it knew when the task was added:
\* the pipeline, inside the scope of the finished event, catches
\* InvalidOperationError or InvalidConditionError and goes to
\* _set_task_as_failed with the message of the plugin that refused.
CreateRaises(i, plugin) ==
    /\ run[i].pc = "get_finished"
    /\ CacheGet(FinishedTopic(i))
    /\ run' = [run EXCEPT ![i] =
                  [@ EXCEPT !.pc = "fail",
                            !.finished = CacheGetEvent(FinishedTopic(i)),
                            !.error = IF plugin = "operation"
                                      THEN OperationNotSupportedMessage(
                                               run[i].task.operation.type)
                                      ELSE ConditionNotSupportedMessage(
                                               run[i].task.condition.type)]]
    /\ events' = Released({Holder(i)})
    /\ UNCHANGED <<store, lock, queue, nextId, now, notified, canceller, cleaner, reader,
                   dispatcher, modifier, calls, orphans>>

DriverLock(i) ==
    \/ DriverAcquire(i)
    \/ RunGetTask(i)
    \/ RunGetFinished(i)
    \/ \E plugin \in {"operation", "condition"} : CreateRaises(i, plugin)
    \/ WatcherGet(i)
    \/ ResolveRead(i)
    \/ ResolveWake(i)
    \/ ResolveReread(i)
    \/ DependencyFailed(i)
    \/ ConditionWaitReturns(i)
    \/ ConditionWaitRaises(i)
    \/ SetRunning(i)
    \/ OperationRunReturns(i)
    \/ OperationRunRaises(i)
    \/ \E result \in Results : SetCompleted(i, result)
    \/ RunDeleteFinished(i)
    \/ RunCancelled(i)

NextLock ==
    \/ \E operation \in OperationTypes, condition \in ConditionTypes,
          dependencies \in DependencyMaps :
            Schedule(operation, condition, dependencies)
    \/ \E task_id \in Ids : Cancel(task_id)
    \/ CancelNotifyFinished
    \/ DispatchPop
    \/ \E i \in Ids : DriverLock(i)

SpecLock == Init /\ [][NextLock]_vars

\* The engine with both locks spelled out.  A pipeline asks for the exclusive
\* lock before each of its lock sections and runs the section holding it.  A
\* call of EventCache.get or EventCache.delete first takes the mutex of the
\* cache, then looks the topic up and releases: the pipeline for
\* finished:<id> (get and delete), its watcher for finished:<dependency>, the
\* Canceller for finished:<id> while it holds the exclusive lock.  The get of
\* cancelled:<id> by the Canceller and by the monitor is one step with the
\* call around it, so it needs the mutex free.
MutexTake(k) ==
    /\ events.mutex = "free"
    /\ \/ k = "canceller" /\ canceller.pc = "finished"
       \/ \E i \in Ids : k = Holder(i) /\ run[i].pc \in {"get_finished", "delete"}
       \/ \E i \in Ids : k = Watcher(i) /\ run[i].wpc = "created"
    /\ events' = [events EXCEPT !.mutex = k]
    /\ UNCHANGED <<store, lock, queue, nextId, now, cache, created, notified, run,
                   canceller, cleaner, reader, dispatcher, modifier, calls, orphans>>

\* What a call of the EventCache does once it holds the mutex.
CacheStep(k) ==
    /\ events.mutex = k
    /\ \/ k = "canceller" /\ CancelNotifyFinished
       \/ \E i \in Ids :
             /\ k = Holder(i)
             /\ \/ RunGetFinished(i)
                \/ \E plugin \in {"operation", "condition"} : CreateRaises(i, plugin)
                \/ RunDeleteFinished(i)
       \/ \E i \in Ids : k = Watcher(i) /\ WatcherGet(i)

\* The lock sections of a pipeline, run while it holds the exclusive lock.
SectionStep(i) ==
    /\ lock = Holder(i)
    /\ \/ RunGetTask(i)
       \/ ResolveRead(i)
       \/ ResolveReread(i)
       \/ DependencyFailed(i)
       \/ SetRunning(i)
       \/ \E result \in Results : SetCompleted(i, result)

NextMutex ==
    \/ \E operation \in OperationTypes, condition \in ConditionTypes,
          dependencies \in DependencyMaps :
            Schedule(operation, condition, dependencies)
    \/ \E task_id \in Ids : events.mutex = "free" /\ Cancel(task_id)
    \/ events.mutex = "free" /\ DispatchPop
    \/ \E k \in {"canceller"} \cup {Holder(i) : i \in Ids} \cup {Watcher(i) : i \in Ids} :
          MutexTake(k) \/ CacheStep(k)
    \/ \E i \in Ids :
          \/ DriverAcquire(i)
          \/ SectionStep(i)
          \/ ResolveWake(i)
          \/ ConditionWaitReturns(i)
          \/ ConditionWaitRaises(i)
          \/ OperationRunReturns(i)
          \/ OperationRunRaises(i)
          \/ RunCancelled(i)

\* The scheduling of the two locks is fair.  asyncio.Lock wakes its waiters in
\* the order they came, so a request that can be granted again and again is
\* granted (strong fairness of the two acquisitions); the steps a holder
\* takes until it releases are calls of the store or of an event, which
\* return (weak fairness).  Clients, conditions and operations act when they
\* please.
SpecMutex ==
    /\ Init
    /\ [][NextMutex]_vars
    /\ \A i \in Ids : SF_vars(DriverAcquire(i)) /\ WF_vars(SectionStep(i))
    /\ \A k \in {"canceller"} \cup {Holder(i) : i \in Ids} \cup {Watcher(i) : i \in Ids} :
          SF_vars(MutexTake(k)) /\ WF_vars(CacheStep(k))

\* ------------------------------------------------- the store under the lock
\* The callers of the Modifier at the grain of the store: store.get and
\* store.set are awaited, so a call may be suspended between its read and its
\* write.  Adder.add, Canceller.cancel and Runner._set_task_as_* take the lock
\* and call the Modifier; a transition that raises releases the lock on its
\* way out and writes nothing.  What a caller does between the write and the
\* release, other than queue.put, is left to the actions of the engine above.

\* Mutant: the transition is called without taking the lock.
StoreMove_without_lock(caller, status, task_id) ==
    /\ modifier[caller].pc = "idle"
    /\ LET moved == move_task_to(State, status, task_id, awareutcnow)
       IN  IF moved.err # NoError
           THEN UNCHANGED <<lock, modifier>>
           ELSE /\ lock' = lock
                /\ modifier' = [modifier EXCEPT ![caller] =
                       [pc |-> "save", id |-> task_id, read |-> State,
                        state |-> moved.state]]
    /\ UNCHANGED <<store, queue, nextId, now, cache, created, notified, run, canceller,
                   cleaner, reader, dispatcher, events, calls, orphans>>

\* The lock is taken, _get_state reads the store and the transition is
\* computed on the state read; the call is then suspended in store.set.
StoreMove(caller, status, task_id) ==
    /\ lock = "free"
    /\ modifier[caller].pc = "idle"
    /\ LET moved == move_task_to(State, status, task_id, awareutcnow)
       IN  IF moved.err # NoError
           THEN UNCHANGED <<lock, modifier>>
           ELSE /\ lock' = caller
                /\ modifier' = [modifier EXCEPT ![caller] =
                       [pc |-> "save", id |-> task_id, read |-> State,
                        state |-> moved.state]]
    /\ UNCHANGED <<store, queue, nextId, now, cache, created, notified, run, canceller,
                   cleaner, reader, dispatcher, events, calls, orphans>>

\* Adder.add after the factories accepted the types: the lock is taken and
\* add_pending_task reads the store and computes the state with the new task.
StoreAdd(dependencies) ==
    /\ lock = "free"
    /\ modifier["adder"].pc = "idle"
    /\ nextId <= MaxTasks
    /\ LET task == [operation |-> [type |-> "echo"], condition |-> [type |-> "always"],
                    dependencies |-> dependencies]
           added == add_pending_task(State, nextId, task, utcnow)
       IN  IF added.err # NoError
           THEN UNCHANGED <<lock, modifier, nextId>>
           ELSE /\ lock' = "adder"
                /\ nextId' = nextId + 1
                /\ modifier' = [modifier EXCEPT !["adder"] =
                       [pc |-> "save", id |-> nextId, read |-> State,
                        state |-> added.state]]
    /\ UNCHANGED <<store, queue, now, cache, created, notified, run, canceller, cleaner,
                   reader, dispatcher, events, calls, orphans>>

\* _save_state of the suspended call: the state computed is written, the
\* Adder puts the id on the queue, and the lock is released.
StoreSave(caller) ==
    /\ modifier[caller].pc = "save"
    /\ store' \in StateSerializations(modifier[caller].state)
    /\ queue' = IF caller = "adder" THEN Append(queue, modifier[caller].id) ELSE queue
    /\ lock' = "free"
    /\ modifier' = [modifier EXCEPT ![caller] = IdleCall]
    /\ UNCHANGED <<nextId, now, cache, created, notified, run, canceller, cleaner,
                   reader, dispatcher, events, calls, orphans>>

NextStore ==
    \/ \E dependencies \in DependencyMaps : StoreAdd(dependencies)
    \/ \E task_id \in Ids : StoreMove("canceller", CANCELLED, task_id)
    \/ \E task_id \in Ids, status \in {RUNNING, FAILED, COMPLETED} :
          StoreMove(Holder(task_id), status, task_id)
    \/ \E caller \in Callers : StoreSave(caller)
    \/ CleanStart
    \/ \E task_id \in Ids, answer \in BOOLEAN : CleanScan(task_id, answer)
    \/ \E task_id \in Ids : CleanRaise(task_id)
    \/ CleanSave

SpecStore == Init /\ [][NextStore]_vars

\* ------------------------------------------------- the EventCache on its own
\* EventCache.get and EventCache.delete called by concurrent tasks.  The
\* mutex of the cache is an asyncio.Lock: taking it when it is free does not
\* suspend, and factory.create is awaited while it is held.

\* Mutant: get looks the topic up and creates the event without the mutex.
EventCacheGet_without_mutex(k, topic) ==
    /\ events.call[k].pc = "idle"
    /\ events' =
          IF cache[topic] # 0
          THEN [events EXCEPT !.call[k] = [pc |-> "returned", topic |-> topic,
                                           event |-> cache[topic], stale |-> FALSE]]
          ELSE [events EXCEPT !.call[k] = [pc |-> "create", topic |-> topic,
                                           event |-> 0, stale |-> FALSE]]
    /\ UNCHANGED <<store, lock, queue, nextId, now, cache, created, notified, run,
                   canceller, cleaner, reader, dispatcher, modifier, calls, orphans>>

\* EventCache.get up to its first suspension: with the mutex free the call
\* takes it; a topic the cache holds is answered at once, and for a topic it
\* does not hold the call is suspended in factory.create, holding the mutex.
EventCacheGet(k, topic) ==
    /\ events.call[k].pc = "idle"
    /\ events.mutex = "free"
    /\ events' =
          IF cache[topic] # 0
          THEN [events EXCEPT !.call[k] = [pc |-> "returned", topic |-> topic,
                                           event |-> cache[topic], stale |-> FALSE]]
          ELSE [events EXCEPT !.mutex = k,
                              !.call[k] = [pc |-> "create", topic |-> topic,
                                           event |-> 0, stale |-> FALSE]]
    /\ UNCHANGED <<store, lock, queue, nextId, now, cache, created, notified, run,
                   canceller, cleaner, reader, dispatcher, modifier, calls, orphans>>

\* factory.create returns: the event is stored under the topic and handed
\* back, and the mutex is released.
EventCacheCreated(k) ==
    /\ events.call[k].pc = "create"
    /\ created[events.call[k].topic] < MaxEvents
    /\ LET topic == events.call[k].topic
           event == created[topic] + 1
       IN  /\ created' = [created EXCEPT ![topic] = event]
           /\ cache' = [cache EXCEPT ![topic] = event]
           /\ events' = [events EXCEPT !.mutex = "free",
                                       !.call[k].pc = "returned",
                                       !.call[k].event = event]
    /\ UNCHANGED <<store, lock, queue, nextId, now, notified, run, canceller, cleaner,
                   reader, dispatcher, modifier, calls, orphans>>

\* EventCache.delete: the topic is popped under the mutex.  The events handed
\* back for the topic before are from now on events of an earlier entry.
EventCacheDelete(topic) ==
    /\ events.mutex = "free"
    /\ CacheDelete(topic)
    /\ events' = [events EXCEPT !.call =
                     [k \in CacheCallers |->
                         IF @[k].pc = "returned" /\ @[k].topic = topic
                         THEN [@[k] EXCEPT !.stale = TRUE]
                         ELSE @[k]]]
    /\ UNCHANGED <<store, lock, queue, nextId, now, notified, run, canceller, cleaner,
                   reader, dispatcher, modifier, calls, orphans>>

\* The caller notifies the event it was handed.
EventNotify(k) ==
    /\ events.call[k].pc = "returned"
    /\ notified' = notified \cup {<<events.call[k].topic, events.call[k].event>>}
    /\ UNCHANGED <<store, lock, queue, nextId, now, cache, created, run, canceller,
                   cleaner, reader, dispatcher, modifier, events, calls, orphans>>

\* The caller lets go of the event; it may call the cache again.
EventDrop(k) ==
    /\ events.call[k].pc = "returned"
    /\ events' = [events EXCEPT !.call[k] = IdleGet]
    /\ UNCHANGED <<store, lock, queue, nextId, now, cache, created, notified, run,
                   canceller, cleaner, reader, dispatcher, modifier, calls, orphans>>

\* The topics the concurrent callers ask for: the two topics of one task.
CacheTopics == {FinishedTopic(1), CancelledTopic(1)}

NextCache ==
    \/ \E k \in CacheCallers, topic \in CacheTopics : EventCacheGet(k, topic)
    \/ \E k \in CacheCallers : EventCacheCreated(k)
    \/ \E topic \in CacheTopics : EventCacheDelete(topic)
    \/ \E k \in CacheCallers : EventNotify(k)
    \/ \E k \in CacheCallers : EventDrop(k)

SpecCache == Init /\ [][NextCache]_vars

\* ------------------------------------------------- views of the store
\* The status the store holds for an id (None: the id is not in `statuses`).
StoredStatus(i) ==
    IF UuidStr(i) \in DOMAIN store.statuses THEN store.statuses[UuidStr(i)] ELSE None
\* The record the store holds for an id under its status.
StoredRecord(i) == store.tasks[StoredStatus(i)][UuidStr(i)]
\* The ids a stored task declares in its `dependencies` map.
Declared(state, i) == Values(state.tasks[state.statuses[i]][i].task.dependencies)

\* ------------------------------------------------------------------ C1
\* C1: in every committed state each id of `statuses` has a record in the
\* mapping its status names and in no other of the five mappings, and the
\* keys of the five mappings together are the keys of `statuses`.
C1_OneRecordPerStatus ==
    /\ \A k \in DOMAIN store.statuses :
          \A s \in Status : (k \in DOMAIN store.tasks[s]) <=> (s = store.statuses[k])
    /\ UNION {DOMAIN store.tasks[s] : s \in Status} = DOMAIN store.statuses

\* A task was reaped, and of the tasks that remain one is running.
C1_Witness ==
    /\ nextId = 3
    /\ Cardinality(DOMAIN store.statuses) = 1
    /\ \E i \in Ids : StoredStatus(i) = RUNNING

\* ------------------------------------------------------------------ C2
\* C2: in every committed state b is in dependencies[a] exactly when a is in
\* dependents[b], and every key and member of both maps is in `statuses`.
C2_RelationshipsMirror ==
    LET dependencies == store.relationships.dependencies
        dependents == store.relationships.dependents
        known == DOMAIN store.statuses
    IN  /\ \A a \in DOMAIN dependencies : \A b \in SeqToSet(dependencies[a]) :
              b \in DOMAIN dependents /\ a \in SeqToSet(dependents[b])
        /\ \A b \in DOMAIN dependents : \A a \in SeqToSet(dependents[b]) :
              a \in DOMAIN dependencies /\ b \in SeqToSet(dependencies[a])
        /\ \A a \in DOMAIN dependencies : a \in known /\ SeqToSet(dependencies[a]) \subseteq known
        /\ \A b \in DOMAIN dependents : b \in known /\ SeqToSet(dependents[b]) \subseteq known

\* remove_stale_tasks has removed a task that had dependencies and is about to
\* save: the store still shows the edges the saved state must no longer have.
C2_Witness ==
    /\ cleaner.pc = "save"
    /\ \E i \in cleaner.removed : UuidStr(i) \in DOMAIN store.relationships.dependencies

\* ------------------------------------------------------------------ C3
\* C3: between two consecutive committed states the status of an id changes
\* only from absent to pending, pending to running, running to completed or
\* failed, pending or running to cancelled, and from a finished status to absent.
C3_Lifecycle ==
    [][\A i \in Ids :
          \/ StoredStatus(i)' = StoredStatus(i)
          \/ <<StoredStatus(i), StoredStatus(i)'>> \in
                {<<None, PENDING>>, <<PENDING, RUNNING>>, <<RUNNING, COMPLETED>>,
                 <<RUNNING, FAILED>>, <<PENDING, CANCELLED>>, <<RUNNING, CANCELLED>>,
                 <<CANCELLED, None>>, <<FAILED, None>>, <<COMPLETED, None>>}]_vars

\* A failed record next to a record cancelled while pending.
C3_Witness ==
    /\ \E i \in Ids : StoredStatus(i) = FAILED
    /\ \E i \in Ids : StoredStatus(i) = CANCELLED /\ StoredRecord(i).started = NoTimeStr

\* ------------------------------------------------------------------ C4
\* C4: a cancelled, failed or completed record keeps its status and all its
\* fields in the next committed state, unless the id is removed.
C4_TerminalImmutable ==
    [][\A i \in Ids :
          StoredStatus(i) \in Finished =>
              \/ StoredStatus(i)' = None
              \/ /\ StoredStatus(i)' = StoredStatus(i)
                 /\ StoredRecord(i)' = StoredRecord(i)]_vars

\* The task is cancelled while its operation, which ignored the cancellation,
\* is still running and will hand in its result or error.
C4_Witness ==
    \E i \in Ids :
        /\ StoredStatus(i) = CANCELLED
        /\ run[i].pc = "operation"
        /\ run[i].cancel = "delivered"

\* ------------------------------------------------------------------ C5
\* C5: in the step that moves a task to running, every id of its declared
\* dependencies has status completed.
C5_DependenciesCompleted ==
    [][\A i \in Ids :
          (StoredStatus(i) # RUNNING /\ StoredStatus(i)' = RUNNING) =>
              \A d \in Declared(State, i) : StoredStatus(d) = COMPLETED]_vars

\* A task with dependencies is running.
C5_Witness ==
    \E i \in Ids : StoredStatus(i) = RUNNING /\ Declared(State, i) # {}

\* ------------------------------------------------------------------ C6
\* C6: no task that remove_stale_tasks has removed is declared as a dependency
\* by a task that its state still holds; and when the store holds a completed
\* task with a pending or running dependent and nothing else, the call is
\* about to save with nothing removed.
C6_KeepsDependencies ==
    cleaner.pc \in {"scan", "save"} =>
        /\ \A t \in cleaner.removed : \A a \in DOMAIN cleaner.state.statuses :
              t \notin Declared(cleaner.state, a)
        /\ (/\ cleaner.pc = "save"
            /\ \E a, b \in Ids :
                  /\ DOMAIN State.statuses = {a, b}
                  /\ State.statuses[a] = COMPLETED
                  /\ State.statuses[b] \in {PENDING, RUNNING}
                  /\ a \in Declared(State, b))
           => (cleaner.removed = {} /\ cleaner.state = State)

\* A clean of a completed task with a running dependent is about to save.
C6_Witness ==
    /\ cleaner.pc = "save"
    /\ cleaner.removed = {}
    /\ \E a, b \in Ids :
          /\ State.statuses = (a :> COMPLETED @@ b :> RUNNING)
          /\ a \in Declared(State, b)

\* ------------------------------------------------------------------ C7
\* C7: when the driver of a pending task that caught UnsuccessfulDependencyError
\* makes its failure transition, the task is failed in the next committed
\* state, with the error "Dependency <id> finished with status <status>.",
\* and the finished event the pipeline holds is notified.
C7_DependencyFailureFails ==
    [][\A i \in Ids :
          (run[i].pc = "fail" /\ run[i].pc' = "delete" /\ StoredStatus(i) = PENDING) =>
              /\ StoredStatus(i)' = FAILED
              /\ StoredRecord(i)'.error = run[i].error
              /\ \E d \in Ids, st \in {CANCELLED, FAILED} :
                    run[i].error = DependencyMessage(d, st)
              /\ <<FinishedTopic(i), run[i].finished>> \in notified']_vars

\* ------------------------------------------------------------------ C8
\* C8: with fair scheduling, no cancel, dependencies that complete, and a
\* condition and an operation that return, every pending task is eventually
\* completed.
C8_EventuallyCompleted ==
    \A i \in Ids : (StoredStatus(i) = PENDING) ~> (StoredStatus(i) = COMPLETED)

\* ------------------------------------------------------------------ C9
\* C9: while a running task's pipeline is in operation.run, the dependency
\* argument has exactly the parameter names of the task's `dependencies` map,
\* and each is mapped to the result in the completed record of its dependency.
C9_DependencyArgument ==
    \A i \in Ids :
        (run[i].pc = "operation" /\ StoredStatus(i) = RUNNING) =>
            /\ DOMAIN run[i].deps = DOMAIN StoredRecord(i).task.dependencies
            /\ \A p \in DOMAIN run[i].deps :
                  /\ StoredStatus(run[i].task.dependencies[p]) = COMPLETED
                  /\ run[i].deps[p] = StoredRecord(run[i].task.dependencies[p]).result

\* operation.run was invoked with the result of a dependency.
C9_Witness ==
    \E i \in Ids :
        /\ run[i].pc = "operation"
        /\ StoredStatus(i) = RUNNING
        /\ DOMAIN run[i].deps = Params

\* ------------------------------------------------------------------ C10
\* C10: the step that moves a task to cancelled writes `started` as null when
\* the task was pending and as the running record's `started` when it was
\* running; a record cancelled with a null `started` is never followed by a
\* running record of the same id.
C10_CancelledStarted ==
    [][\A i \in Ids :
          /\ (StoredStatus(i) = PENDING /\ StoredStatus(i)' = CANCELLED) =>
                StoredRecord(i)'.started = NoTimeStr
          /\ (StoredStatus(i) = RUNNING /\ StoredStatus(i)' = CANCELLED) =>
                /\ StoredRecord(i)'.started = StoredRecord(i).started
                /\ StoredRecord(i)'.started # NoTimeStr
          /\ (StoredStatus(i) = CANCELLED /\ StoredRecord(i).started = NoTimeStr) =>
                StoredStatus(i)' # RUNNING]_vars

\* One task was cancelled while running, later than it started; another was
\* cancelled while pending and its pipeline is about to ask for running.
C10_Witness ==
    \E i, j \in Ids :
        /\ StoredStatus(i) = CANCELLED
        /\ StoredRecord(i).started = IsoFormat(0)
        /\ StoredRecord(i).cancelled = IsoFormat(1)
        /\ StoredStatus(j) = CANCELLED
        /\ StoredRecord(j).started = NoTimeStr
        /\ run[j].pc = "condition"

\* ------------------------------------------------------------------ C11
\* C11: in every reachable state, a request whose operation type is unknown is
\* refused with InvalidOperation carrying that type, and one whose operation
\* type is known and whose condition type is unknown with InvalidCondition
\* carrying that type; both leave the state and the queue as they were.
C11_UnknownTypeRefused ==
    LET state == State
    IN  \A operation \in OperationTypes \cup {"nope"},
           condition \in ConditionTypes \cup {"nope"},
           dependencies \in DependencyMaps :
            LET added == add(state, queue, nextId, operation, condition, dependencies, now)
            IN  /\ operation \notin OperationTypes =>
                      /\ added.err = InvalidOperationError(operation)
                      /\ added.state = state
                      /\ added.queue = queue
                /\ (operation \in OperationTypes /\ condition \notin ConditionTypes) =>
                      /\ added.err = InvalidConditionError(condition)
                      /\ added.state = state
                      /\ added.queue = queue

\* A request of unknown operation and condition type meets a state that holds
\* a running task and a queued one.
C11_Witness ==
    /\ Len(queue) = 1
    /\ \E i \in Ids : StoredStatus(i) = RUNNING
    /\ add(State, queue, nextId, "nope", "nope", EmptyMap, now).err
           = InvalidOperationError("nope")

C13_RemovesClosure ==
    cleaner.pc = "save" =>
        LET before == State
            after == cleaner.state
            RECURSIVE Reach(_, _)
            Reach(S, n) ==
                IF n = 0 THEN S
                ELSE Reach(S \cup UNION {before.relationships.dependents[j] :
                                           j \in S \cap DOMAIN before.relationships.dependents},
                           n - 1)
            stale == {i \in Pool(before) :
                         \A j \in Reach({i}, MaxTasks) : before.statuses[j] \in Finished}
        IN  /\ cleaner.removed = stale
            /\ cleaner.removed = DOMAIN before.statuses \ DOMAIN after.statuses
            /\ Pool(after) \subseteq DOMAIN after.relationships.dependents

\* A chain of two finished tasks was removed whole by one call.
C13_Witness ==
    /\ cleaner.pc = "save"
    /\ cleaner.removed = {1, 2}
    /\ 1 \in Declared(State, 2)

\* ------------------------------------------------------------------ C14
\* C14: once cancel(a) has returned successfully, a resolve(a) in progress (the
\* one a dependent's pipeline is in) is never blocked: if it is past its first
\* read and awaits its watcher, the event the watcher waits on, or will take
\* from the cache, has been notified, so that the resolve goes to its second
\* read and returns with one more acquisition of the lock.
C14_ResolveAfterCancel ==
    \A a, b \in Ids :
        (/\ StoredStatus(a) = CANCELLED
         /\ ~(canceller.pc = "finished" /\ canceller.id = a)
         /\ run[b].pc = "res_wait"
         /\ run[b].task.dependencies[run[b].param] = a) =>
            IF run[b].wpc = "waiting"
            THEN <<FinishedTopic(a), run[b].wev>> \in notified
            ELSE <<FinishedTopic(a), CacheGetEvent(FinishedTopic(a))>> \in notified

\* ------------------------------------------------------------------ C15
\* C15: once the driver of an id has ended, the event cache holds no entry for
\* the topic finished:<id>.
C15_FinishedEventDeleted ==
    \A i \in Ids : run[i].pc = "done" => cache[FinishedTopic(i)] = 0

C17_TimestampsOrdered ==
    LET state == State
    IN  /\ \A i \in DOMAIN state.tasks.running :
              state.tasks.running[i].scheduled <= state.tasks.running[i].started
        /\ \A i \in DOMAIN state.tasks.cancelled :
              LET rec == state.tasks.cancelled[i]
              IN  IF rec.started = NoTime
                  THEN rec.scheduled <= rec.cancelled
                  ELSE rec.scheduled <= rec.started /\ rec.started <= rec.cancelled
        /\ \A i \in DOMAIN state.tasks.failed :
              LET rec == state.tasks.failed[i]
              IN  rec.scheduled <= rec.started /\ rec.started <= rec.failed
        /\ \A i \in DOMAIN state.tasks.completed :
              LET rec == state.tasks.completed[i]
              IN  rec.scheduled <= rec.started /\ rec.started <= rec.completed

\* A task scheduled and started before the clock moved was completed after,
\* next to a task that was scheduled after and cancelled while pending.
C17_Witness ==
    \E i, j \in Ids :
        /\ StoredStatus(i) = COMPLETED
        /\ StoredRecord(i).started = IsoFormat(0)
        /\ StoredRecord(i).completed = IsoFormat(1)
        /\ StoredStatus(j) = CANCELLED
        /\ StoredRecord(j).scheduled = IsoFormat(1)
        /\ StoredRecord(j).started = NoTimeStr

\* ------------------------------------------------------------------ C18
\* C18: Reader.get never answers None for an id that has a status during the
\* whole call (under SpecReader an id that had a status at the first read
\* keeps one), and a task it answers with carries the status it was read under.
C18_ReaderAnswersKnownId ==
    reader.pc = "returned" /\ reader.status # None =>
        reader.answer = GenericTask(reader.id, reader.status)

\* ------------------------------------------------------------------ C19
\* C19: a transition on an id without a status fails with TaskNotFound; a
\* transition from a status that does not allow it (running needs pending,
\* failed and completed need running, cancelled needs pending or running)
\* fails with TaskStatusError of the id and its status; in both cases, and
\* when the write to the store fails, the store holds what it held before.
C19_RefusedTransitions ==
    LET state == State
        Allowed(to) == IF to = RUNNING THEN {PENDING}
                       ELSE IF to = CANCELLED THEN {PENDING, RUNNING}
                       ELSE {RUNNING}
    IN  \A to \in Status \ {PENDING}, task_id \in 0..MaxStored :
            LET status == Get(state.statuses, task_id)
                moved == move_task_to(state, to, task_id, now)
            IN  /\ status = None => moved.err = TaskNotFoundError(task_id)
                /\ status # None /\ status \notin Allowed(to) =>
                      moved.err = TaskStatusError(task_id, status)
                /\ status \in Allowed(to) => moved.err = NoError
                /\ moved.err # NoError =>
                      /\ moved.state = state
                      /\ move_task(store, to, task_id, now, TRUE) = {store}
                /\ move_task(store, to, task_id, now, FALSE) = {store}

\* The store holds a completed task, a cancelled one and a pending one, and
\* knows nothing of id 0: every kind of refusal has a case.
C19_Witness ==
    /\ StoredStatus(1) = COMPLETED
    /\ StoredStatus(2) = CANCELLED
    /\ StoredStatus(3) = PENDING
    /\ StoredStatus(0) = None

\* ------------------------------------------------------------------ C20
\* C20: once the store holds a task as cancelled, its driver, dispatched
\* before the cancel or after it, comes to its end.
C20_CancelledDriverTerminates ==
    \A i \in Ids : (StoredStatus(i) = CANCELLED) ~> (run[i].pc = "done")

\* ------------------------------------------------------------------ C21
\* C21: a resolve that read its dependency as unfinished and awaits its
\* watcher is woken once the dependency has reached a terminal status.
C21_ResolverWoken ==
    \A a, b \in Ids :
        (/\ run[b].pc = "res_wait"
         /\ run[b].task.dependencies[run[b].param] = a
         /\ StoredStatus(a) \in Finished) ~> (run[b].pc # "res_wait")

\* ------------------------------------------------------------------ C22
\* C22: whenever a pipeline deletes finished:<id> on leaving the scope of the
\* event, the event it deletes has been notified.
C22_NotifiedBeforeDeleted ==
    [][\A i \in Ids :
          (run[i].pc = "delete" /\ run[i].pc' = "done") =>
              <<FinishedTopic(i), cache[FinishedTopic(i)]>> \in notified]_vars

\* ------------------------------------------------------------------ C23
\* C23: a task with a notified finished event is stored with a terminal status
\* or is not stored at all, and a resolve that its watcher's event has woken
\* is about to read its dependency as neither pending nor running.
C23_NotifiedAfterCommit ==
    /\ \A n \in notified :
          n[1][1] = "finished" => StoredStatus(n[1][2]) \notin {PENDING, RUNNING}
    /\ \A b \in Ids :
          (run[b].pc = "res_read2" /\ run[b].cancel = "no") =>
              StoredStatus(run[b].task.dependencies[run[b].param]) \notin {PENDING, RUNNING}

\* A resolve woken by the event of its dependency is about to read it, and the
\* driver of the dependency notified that event when it completed the task.
C23_Witness ==
    \E a, b \in Ids :
        /\ run[b].pc = "res_read2"
        /\ run[b].cancel = "no"
        /\ run[b].task.dependencies[run[b].param] = a
        /\ StoredStatus(a) = COMPLETED
        /\ \E n \in notified : n[1] = FinishedTopic(a)

\* ------------------------------------------------------------------ C24
\* C24: while remove_stale_tasks is at a task it shows to the predicate (a
\* finished task without dependents), the cleaner does not hold the lock.
C24_PredicateOutsideLock ==
    \A task_id \in Ids :
        (/\ cleaner.pc = "scan"
         /\ task_id \in cleaner.scan
         /\ task_id \notin DOMAIN cleaner.state.relationships.dependents) =>
            lock # "cleaner"

\* ------------------------------------------------------------------ C25
\* C25: a driver that holds the lock is at a state read or at a transition;
\* it never holds it while condition.wait or operation.run is in flight or
\* while resolve awaits its watcher.
C25_DriverLockSections ==
    \A i \in Ids :
        lock = Holder(i) =>
            /\ run[i].pc \in LockSections
            /\ run[i].pc \notin {"condition", "operation", "res_wait"}

\* Each driver has held the lock for its own sections, and now a cancel of the
\* task whose operation is in flight has taken the lock while the other
\* driver's resolve awaits its watcher.
C25_Witness ==
    \E i, j \in Ids :
        /\ run[i].pc = "operation"
        /\ run[j].pc = "res_wait"
        /\ lock = "canceller"
        /\ canceller.id = i

\* C26: a read-modify-write of the persisted state holds the lock from its
\* read of the store to its write, and nobody writes in between: a call
\* suspended before its write holds the lock and the store still holds the
\* state it read, and the Cleaner, from its read to its save, holds the lock
\* while the store keeps every status it read.  Each write is then one
\* operation applied to the state the store held just before it.
C26_ReadModifyWriteUnderLock ==
    LET state == State
    IN  /\ \A caller \in Callers :
              modifier[caller].pc = "save" =>
                  /\ lock = caller
                  /\ modifier[caller].read = state
        /\ cleaner.pc # "idle" =>
              /\ lock = "cleaner"
              /\ \A i \in DOMAIN cleaner.state.statuses :
                    /\ i \in DOMAIN state.statuses
                    /\ cleaner.state.statuses[i] = state.statuses[i]
              /\ DOMAIN state.statuses = DOMAIN cleaner.state.statuses \cup cleaner.removed

\* C26 witness: a driver's transition is suspended before its write, holding
\* the lock, on a state that already holds a second task.
C26_Witness ==
    \E i \in Ids :
        /\ modifier[Holder(i)].pc = "save"
        /\ lock = Holder(i)
        /\ Cardinality(DOMAIN State.statuses) = 2
        /\ modifier[Holder(i)].state.statuses[i] = COMPLETED

\* ------------------------------------------------------------------ C27
\* C27: a pipeline that was handed a cancellation commits nothing afterwards:
\* no step it takes changes the persisted status of its task, so no failed
\* record is written and, after a shutdown, the status stays what it was.
C27_CancelledCommitsNothing ==
    [][\A i \in Ids :
          (run[i].cancel = "delivered" /\ run[i]' # run[i]) =>
              StoredStatus(i)' = StoredStatus(i)]_vars

\* ------------------------------------------------------------------ C28
\* C28: when the driver of a task that is still pending reaches
\* _set_task_as_failed because a factory refused the operation or the
\* condition type, or because condition.wait raised, the store then holds the
\* task as failed with that message and its finished event is notified.
C28_PendingFailureFails ==
    [][\A i \in Ids :
          (/\ run[i].pc = "fail" /\ run[i].pc' = "delete"
           /\ StoredStatus(i) = PENDING
           /\ run[i].error \in
                 {OperationNotSupportedMessage(run[i].task.operation.type),
                  ConditionNotSupportedMessage(run[i].task.condition.type),
                  ConditionFailedMessage(run[i].task.condition.type, OpError)}) =>
              /\ StoredStatus(i)' = FAILED
              /\ StoredRecord(i)'.error = run[i].error
              /\ <<FinishedTopic(i), run[i].finished>> \in notified']_vars

\* ------------------------------------------------------------------ C29
\* C29: when operation.run has raised and the task is still running as the
\* driver runs _set_task_as_failed, the store then holds the task as failed
\* with "Operation <type> failed: <error>.", the finished event the pipeline
\* holds is notified, and the pipeline has nothing left but to delete the
\* event: it makes no other transition.
C29_OperationFailureFails ==
    [][\A i \in Ids :
          (/\ run[i].pc = "fail" /\ run[i]' # run[i]
           /\ lock = Holder(i)
           /\ StoredStatus(i) = RUNNING
           /\ run[i].error = OperationFailedMessage(run[i].task.operation.type, OpError)) =>
              /\ StoredStatus(i)' = FAILED
              /\ StoredRecord(i)'.error = run[i].error
              /\ <<FinishedTopic(i), run[i].finished>> \in notified'
              /\ run[i].pc' = "delete"]_vars

\* C29 witness: the failure of an operation is committed, the finished event
\* is notified and the pipeline is about to delete it.
C29_Witness ==
    \E i \in Ids :
        /\ run[i].pc = "delete"
        /\ StoredStatus(i) = FAILED
        /\ StoredRecord(i).error = OperationFailedMessage("echo", OpError)
        /\ <<FinishedTopic(i), cache[FinishedTopic(i)]>> \in notified

\* ------------------------------------------------------------------ C30
\* C30: the driver of an id that the store does not hold as pending ends at
\* its first read: the step leaves the store, the notified events, the cache
\* and the queue as they were, the pipeline is over before any factory,
\* condition or operation is asked, and the dispatcher goes on.
C30_SilentExit ==
    [][\A i \in Ids :
          (run[i].pc = "get_task" /\ run[i]' # run[i] /\ StoredStatus(i) # PENDING) =>
              /\ run[i].pc' = "done"
              /\ store' = store
              /\ notified' = notified
              /\ cache' = cache
              /\ created' = created
              /\ queue' = queue
              /\ dispatcher' = dispatcher]_vars

\* C30 witness: a task cancelled before its pipeline entered the scope of the
\* finished event (the Canceller's event is the only one the topic ever had
\* and nobody deleted it); its driver has ended and another driver is at work.
C30_Witness ==
    \E i, j \in Ids :
        /\ run[i].pc = "done"
        /\ StoredStatus(i) = CANCELLED
        /\ created[FinishedTopic(i)] = 1
        /\ cache[FinishedTopic(i)] = 1
        /\ run[j].pc = "operation"
        /\ dispatcher = "running"

\* ------------------------------------------------------------------ C31
\* C31: the calls of get for a topic that returned since the topic was last
\* deleted all hold the event the cache holds for it; an event is created
\* only when the cache holds none for the topic, so once between two
\* deletes; and the event created is a new one, which nobody holds and which
\* was not notified.
C31_GetOrCreate ==
    /\ [](\A k \in CacheCallers :
             (events.call[k].pc = "returned" /\ ~events.call[k].stale) =>
                 /\ events.call[k].event # 0
                 /\ events.call[k].event = cache[events.call[k].topic])
    /\ [][\A topic \in Topics :
             created[topic]' # created[topic] =>
                 /\ cache[topic] = 0
                 /\ created[topic]' = created[topic] + 1
                 /\ <<topic, cache[topic]'>> \notin notified'
                 /\ \A k \in CacheCallers :
                       (events.call[k].pc = "returned" /\ events.call[k].topic = topic) =>
                           events.call[k].event # cache[topic]']_vars

\* C31 witness: after a delete of a topic whose event was notified, both
\* callers were handed the same second event, which is not notified, while
\* the factory was asked twice in all.
C31_Witness ==
    \E topic \in Topics :
        /\ \A k \in CacheCallers :
              /\ events.call[k].pc = "returned"
              /\ events.call[k].topic = topic
              /\ events.call[k].event = 2
        /\ created[topic] = 2
        /\ <<topic, 1>> \in notified
        /\ <<topic, 2>> \notin notified

\* ------------------------------------------------------------------ C32
\* C32: notify is called on finished:<id> once, at the transition of the
\* task into its terminal state, and on cancelled:<id> once when the task is
\* moved to cancelled and never otherwise.  A task the store holds as
\* pending or running had no notify of either topic; one it holds as failed
\* or completed had one of finished:<id> and none of cancelled:<id>; one it
\* holds as cancelled had one of each, the one of finished:<id> coming at the
\* end of the cancel; and a task the cleaner removed keeps the counts it had.
C32_NotifiedOnce ==
    \A i \in Ids :
        LET finished == calls.notify[FinishedTopic(i)]
            cancelled == calls.notify[CancelledTopic(i)]
            cancelling == canceller.pc = "finished" /\ canceller.id = i
            status == StoredStatus(i)
        IN  /\ finished <= 1 /\ cancelled <= finished + (IF cancelling THEN 1 ELSE 0)
            /\ status \in {PENDING, RUNNING} => finished = 0 /\ cancelled = 0
            /\ status \in {FAILED, COMPLETED} => finished = 1 /\ cancelled = 0
            /\ status = CANCELLED =>
                  cancelled = 1 /\ finished = (IF cancelling THEN 0 ELSE 1)
            /\ (status = None /\ i < nextId) => finished = 1
            /\ i >= nextId => finished = 0 /\ cancelled = 0

\* C32 witness: one task was cancelled and another completed, each with its
\* one notify of finished:<id>, and only the first with one of cancelled:<id>.
C32_Witness ==
    \E i, j \in Ids :
        /\ StoredStatus(i) = CANCELLED /\ StoredStatus(j) = COMPLETED
        /\ calls.notify[FinishedTopic(i)] = 1 /\ calls.notify[CancelledTopic(i)] = 1
        /\ calls.notify[FinishedTopic(j)] = 1 /\ calls.notify[CancelledTopic(j)] = 0

\* ------------------------------------------------------------------ C33
\* C33: once the exit of the run context has begun no id is popped from the
\* queue; the exit returns only when every pipeline has ended; and after it
\* has returned no driver takes a step, so none commits a transition.
C33_ExitAfterDrivers ==
    /\ [](dispatcher = "exited" => \A i \in Ids : run[i].pc \in {"none", "done"})
    /\ [][dispatcher # "running" => Len(queue') >= Len(queue)]_vars
    /\ [][dispatcher = "exited" => (run' = run /\ dispatcher' = "exited")]_vars

\* ------------------------------------------------------------------ C34
\* C34: an id on the queue was committed by its schedule call, is there once
\* and has no driver yet; an id with a driver was committed and is no longer
\* on the queue; every id committed is on the queue or has been handed to a
\* driver; and a pop hands the id at the head to one new driver and touches
\* no other.
C34_CommittedThenQueuedOnce ==
    /\ [](/\ \A k \in 1..Len(queue) :
                /\ queue[k] \in Ids /\ queue[k] < nextId
                /\ run[queue[k]].pc = "none"
                /\ \A l \in 1..Len(queue) : l # k => queue[l] # queue[k]
          /\ \A i \in Ids :
                /\ run[i].pc # "none" => i < nextId /\ i \notin SeqToSet(queue)
                /\ i < nextId => i \in SeqToSet(queue) \/ run[i].pc # "none")
    /\ [][Len(queue') < Len(queue) =>
             \E i \in Ids :
                 /\ queue = <<i>> \o queue'
                 /\ run[i].pc = "none"
                 /\ run[i].pc' = "get_task"
                 /\ \A j \in Ids \ {i} : run[j]' = run[j]]_vars

\* C34 witness: one id has been handed to its driver, which is at work, while
\* the id scheduled after it is committed and waits on the queue.
C34_Witness ==
    /\ queue = <<2>>
    /\ StoredStatus(2) = PENDING
    /\ run[1].pc = "operation"
    /\ run[2].pc = "none"

\* ------------------------------------------------------------------ C35
\* C35: `relationships.dependencies` has no cycle: no task is among the tasks
\* it depends on, directly or through others; and every dependency of a task
\* was admitted before the task (ids are handed out in order of admission).
C35_Acyclic ==
    LET deps == State.relationships.dependencies
        Step(S) == S \cup UNION {deps[j] : j \in S \cap DOMAIN deps}
        RECURSIVE Closure(_, _)
        Closure(S, n) == IF n = 0 THEN S ELSE Closure(Step(S), n - 1)
    IN  \A i \in DOMAIN deps :
            /\ i \notin Closure(deps[i], MaxStored)
            /\ \A d \in deps[i] : d < i

\* C35 witness: a chain of three tasks, the third depending on the second and
\* the second on the first.
C35_Witness ==
    LET deps == State.relationships.dependencies
    IN  /\ DOMAIN deps = {2, 3}
        /\ deps[2] = {1}
        /\ deps[3] = {2}

\* ------------------------------------------------------------------ C36
\* C36: in the committed state, and in the state remove_stale_tasks works
\* on, no key of `dependents` or of `dependencies` is mapped to an empty set
\* (to an empty list, in the store): a task is a key of `dependents` exactly
\* when some task declares it as a dependency, and a key of `dependencies`
\* exactly when it declares one.
C36_NoEmptyEntries ==
    LET state == State
        states == {state} \cup (IF cleaner.pc = "idle" THEN {} ELSE {cleaner.state})
    IN  /\ \A st \in states :
              /\ \A k \in DOMAIN st.relationships.dependents :
                    st.relationships.dependents[k] # {}
              /\ \A k \in DOMAIN st.relationships.dependencies :
                    st.relationships.dependencies[k] # {}
              /\ \A k \in DOMAIN st.statuses :
                    /\ k \in DOMAIN st.relationships.dependents <=>
                          \E a \in DOMAIN st.statuses : k \in Declared(st, a)
                    /\ k \in DOMAIN st.relationships.dependencies <=> Declared(st, k) # {}
        /\ \A k \in DOMAIN store.relationships.dependents :
              store.relationships.dependents[k] # <<>>
        /\ \A k \in DOMAIN store.relationships.dependencies :
              store.relationships.dependencies[k] # <<>>

\* C36 witness: remove_stale_tasks has removed the only dependent of a task it
\* keeps, and the entry of that task in `dependents` is gone with it.
C36_Witness ==
    /\ cleaner.pc \in {"scan", "save"}
    /\ \E a \in DOMAIN cleaner.state.statuses :
          /\ a \in DOMAIN State.relationships.dependents
          /\ State.relationships.dependents[a] \subseteq cleaner.removed
          /\ a \notin DOMAIN cleaner.state.relationships.dependents

\* ------------------------------------------------------------------ C37
\* C37: every id a held task declares as a dependency is in `statuses`, and
\* resolve never answers None for the dependency of a pipeline: no pipeline
\* that reads the state for a dependency and is not being cancelled leaves by
\* that read.
C37_DependencyResolved ==
    /\ [](\A a \in DOMAIN State.statuses : Declared(State, a) \subseteq DOMAIN State.statuses)
    /\ [][\A i \in Ids :
             (run[i].pc \in {"res_read", "res_read2"} /\ ~CancelRequested(i)) =>
                 run[i].pc' # "delete"]_vars

\* ------------------------------------------------------------------ C38
\* C38: remove_stale_tasks writes the store once, in the step that ends a call
\* that returns, and then with the state it worked on; while the call runs,
\* and in the step that ends a call that raised or was cancelled, the store
\* stays as it was, whatever the call had removed in memory.
C38_AllOrNothing ==
    [][cleaner.pc # "idle" =>
          IF cleaner.pc = "save" /\ cleaner.pc' = "idle"
          THEN StateDeserialize(store') = cleaner.state
          ELSE store' = store]_vars

\* C38 witness: a call that had removed a task in memory was left by an
\* error, and the store still holds the task.
C38_Witness ==
    /\ cleaner.pc = "idle"
    /\ cleaner.removed # {}
    /\ cleaner.removed \subseteq DOMAIN State.statuses

\* ------------------------------------------------------------------ C39
\* C39: for every id, operation.run and condition.wait are each invoked at
\* most once; the step that invokes operation.run is the one that commits the
\* move of the task from pending to running; and condition.wait is invoked
\* only while the task was never moved to running: the store does not hold it
\* as running or completed and operation.run was not invoked for it.
C39_RunOnceAfterRunning ==
    /\ [](\A i \in Ids : calls.run[i] <= 1 /\ calls.wait[i] <= 1)
    /\ [][\A i \in Ids :
             /\ calls.run[i]' # calls.run[i] =>
                   /\ StoredStatus(i) = PENDING
                   /\ Get(StateDeserialize(store').statuses, i) = RUNNING
                   /\ run[i].pc' = "operation"
             /\ calls.wait[i]' # calls.wait[i] =>
                   /\ Get(State.statuses, i) \notin {RUNNING, COMPLETED}
                   /\ store' = store
                   /\ calls.run[i] = 0
                   /\ run[i].pc' = "condition"
             /\ (run[i].pc' = "operation" /\ run[i].pc # "operation") =>
                   calls.run[i]' = calls.run[i] + 1
             /\ (run[i].pc' = "condition" /\ run[i].pc # "condition") =>
                   calls.wait[i]' = calls.wait[i] + 1]_vars

\* C39 witness: a task completed after one condition.wait and one
\* operation.run.
C39_Witness ==
    \E i \in Ids :
        /\ StoredStatus(i) = COMPLETED
        /\ calls.wait[i] = 1
        /\ calls.run[i] = 1

====
